---- MODULE Spec2Model ----
(***************************************************************************)
(* Forumyzer backend: the JSON-file forum store (backend/db.js,            *)
(* backend/models/forum.js), the secured Express routes                    *)
(* (backend/services/liveStreamService.js, second half), the bot-detection *)
(* service, the keyword classifier and the Gemini categorizer.             *)
(***************************************************************************)
EXTENDS Integers, Sequences, FiniteSets, TLC

\* ------------------------------------------------------------------ bounds
MaxUuid == 3        \* uuidv4() is called at most this many times in a run

\* ------------------------------------------------------------ JS values
null == "null"                       \* JS null in a string-typed field
Undefined == [undefined |-> TRUE]    \* what Array.prototype.find returns on a miss

Num(n) == [kind |-> "number", n |-> n]
NegZero == [kind |-> "negzero", n |-> 0]
Infinity == [kind |-> "infinity", n |-> 0]
JsNull == [kind |-> "null", n |-> 0]
NumRange == 0..9

\* JSON.parse of one scalar token of a JSON text.
JSONParseToken(lit) ==
    CASE lit = "null" -> JsNull
      [] lit = "-0" -> NegZero
      [] lit = "1e999" -> Infinity
      [] OTHER -> Num(CHOOSE n \in NumRange : ToString(n) = lit)

\* JSON.stringify of one number (or null) value: a non-finite number becomes
\* null and negative zero loses its sign.
JSONStringifyToken(v) ==
    CASE v.kind = "number" -> ToString(v.n)
      [] v.kind = "negzero" -> "0"
      [] v.kind = "infinity" -> "null"
      [] OTHER -> "null"

\* forumData is an object with (optionally) threads and a numeric total; strings
\* and nesting are kept by JSON, numbers go through their literal.
JSONParseForumData(doc) ==
    [k \in DOMAIN doc |-> IF k = "total" THEN JSONParseToken(doc[k]) ELSE doc[k]]

JSONStringifyForumData(fd) ==
    [k \in DOMAIN fd |-> IF k = "total" THEN JSONStringifyToken(fd[k]) ELSE fd[k]]

JSONStringifyForum(f) == [f EXCEPT !.forumData = JSONStringifyForumData(@)]
JSONParseForum(d) == [d EXCEPT !.forumData = JSONParseForumData(@)]

\* JSON.stringify(data, null, 2) and JSON.parse(raw) of the whole db object.
JSONStringify(data) ==
    [data EXCEPT !.forums = [i \in 1..Len(data.forums) |-> JSONStringifyForum(data.forums[i])]]
JSONParse(raw) ==
    [raw EXCEPT !.forums = [i \in 1..Len(raw.forums) |-> JSONParseForum(raw.forums[i])]]

\* ------------------------------------------------------------ db-async.js
EmptyStructure == [forums |-> <<>>, users |-> <<>>, subscriptions |-> <<>>]
NoFile == [exists |-> FALSE, raw |-> EmptyStructure]

\* A file whose text JSON.parse rejects (cut short, or not written by save).
InvalidJson == [invalid |-> TRUE]
IsJson(raw) == "invalid" \notin DOMAIN raw

\* A load whose fallback holds the forums list only.
loadForumsOnly(file) ==
    IF file.exists /\ IsJson(file.raw) THEN JSONParse(file.raw) ELSE [forums |-> <<>>]

\* load(): the parsed file, or the empty structure when reading or parsing fails.
load(file) ==
    IF file.exists /\ IsJson(file.raw) THEN JSONParse(file.raw) ELSE EmptyStructure

\* save(data): the file now holds JSON.stringify(data).
save(data) == [exists |-> TRUE, raw |-> JSONStringify(data)]

\* ------------------------------------------------------------ identifiers
Uuid(n) == "u" \o ToString(n)          \* the n-th value uuidv4() returns
\* uuidv4().replace(/-/g, '').slice(0, 12) of the n-th uuid
ShareTokenOf(n) == "k" \o ToString(n)
Uuids == {Uuid(n) : n \in 1..(MaxUuid + 1)}
ShareTokens == {ShareTokenOf(n) : n \in 1..(MaxUuid + 1)}

\* validator.isUUID(id, 4)
isValidUUID(id) == id \in Uuids
\* /^[a-zA-Z0-9]{12}$/.test(token)
isValidToken(token) == token \in ShareTokens
\* /^[a-zA-Z0-9_-]{11}$/.test(videoId)
VideoIds == {"dQw4w9WgXcQ"}
isValidVideoId(videoId) == videoId \in VideoIds

\* ------------------------------------------------------------ thread trees
\* A thread or reply is a record with an id and, usually, replies (a sequence of
\* threads); comments that came without a replies array have no such field.
T(id, replies) == [id |-> id, replies |-> replies]
TN(id) == [id |-> id]

HasReplies(thread) == "replies" \in DOMAIN thread

\* thread.replies = thread.replies || []; thread.replies.push(reply)
PushInto(thread, reply) ==
    [k \in DOMAIN thread \cup {"replies"} |->
        IF k = "replies"
        THEN Append(IF HasReplies(thread) THEN thread.replies ELSE <<>>, reply)
        ELSE thread[k]]

\* A search that looks at all threads of a level before it descends.
RECURSIVE pushReplyLevelFirst(_, _, _)
pushReplyLevelFirst(threads, threadId, reply) ==
    IF \E i \in 1..Len(threads) : threads[i].id = threadId
    THEN LET i == CHOOSE i \in 1..Len(threads) :
                    threads[i].id = threadId /\ \A j \in 1..(i - 1) : threads[j].id # threadId
         IN [found |-> TRUE,
             threads |-> [threads EXCEPT ![i] = PushInto(@, reply)]]
    ELSE IF threads = <<>> THEN [found |-> FALSE, threads |-> <<>>]
    ELSE LET thread == Head(threads)
             sub == IF HasReplies(thread)
                    THEN pushReplyLevelFirst(thread.replies, threadId, reply)
                    ELSE [found |-> FALSE, threads |-> <<>>]
             rest == pushReplyLevelFirst(Tail(threads), threadId, reply)
         IN IF sub.found
            THEN [found |-> TRUE,
                  threads |-> <<[thread EXCEPT !.replies = sub.threads]>> \o Tail(threads)]
            ELSE [found |-> rest.found, threads |-> <<thread>> \o rest.threads]

\* The closure pushReply of ForumModel.addReply: the first thread whose id is
\* threadId, searching each thread before its replies and its replies before
\* the next thread, gets the reply; found says whether there was one.
RECURSIVE pushReply(_, _, _)
pushReply(threads, threadId, reply) ==
    IF threads = <<>> THEN [found |-> FALSE, threads |-> <<>>]
    ELSE LET thread == Head(threads)
             rest == pushReply(Tail(threads), threadId, reply)
             next == [found |-> rest.found, threads |-> <<thread>> \o rest.threads]
         IN IF thread.id = threadId
            THEN [found |-> TRUE,
                  threads |-> <<PushInto(thread, reply)>> \o Tail(threads)]
            ELSE IF HasReplies(thread) /\ Len(thread.replies) > 0
                 THEN LET sub == pushReply(thread.replies, threadId, reply)
                      IN IF sub.found
                         THEN [found |-> TRUE,
                               threads |-> <<[thread EXCEPT !.replies = sub.threads]>>
                                             \o Tail(threads)]
                         ELSE next
                 ELSE next

\* ------------------------------------------------------------ ForumModel
\* data.forums.find(f => f.id === id): the index of the first match, 0 if none.
IndexById(forums, id) ==
    IF \E i \in 1..Len(forums) : forums[i].id = id
    THEN CHOOSE i \in 1..Len(forums) :
            forums[i].id = id /\ \A j \in 1..(i - 1) : forums[j].id # id
    ELSE 0

\* A lookup that takes the first forum whatever its id.
findByIdFirst(data, id) ==
    IF data.forums = <<>> THEN Undefined ELSE data.forums[1]

\* ForumModel.findById(id), after db.load()
findById(data, id) ==
    LET i == IndexById(data.forums, id)
    IN IF i = 0 THEN Undefined ELSE data.forums[i]

\* ForumModel.findByShareToken(token)
findByShareToken(data, token) ==
    IF \E i \in 1..Len(data.forums) : data.forums[i].shareToken = token
    THEN data.forums[CHOOSE i \in 1..Len(data.forums) :
                        /\ data.forums[i].shareToken = token
                        /\ \A j \in 1..(i - 1) : data.forums[j].shareToken # token]
    ELSE Undefined

\* ForumModel.findByUser(userId)
findByUser(data, userId) == SelectSeq(data.forums, LAMBDA f : f.userId = userId)

\* ForumModel.create: the record pushed onto data.forums.
create(data, forumData, userId, id, now) ==
    LET forumyzedForum ==
            [id |-> id,
             videoId |-> forumData.videoId,
             forumData |-> forumData.forumData,
             createdAt |-> now,
             updatedAt |-> now,
             userId |-> userId,
             isPublic |-> FALSE,
             shareToken |-> null]
    IN [data |-> [data EXCEPT !.forums = Append(@, forumyzedForum)],
        forum |-> forumyzedForum]

\* A share that adds a record carrying the new token instead of replacing the old one.
generateShareTokenAccumulates(data, i, token, now) ==
    [data EXCEPT !.forums = Append(@, [@[i] EXCEPT !.shareToken = token,
                                                   !.isPublic = TRUE,
                                                   !.updatedAt = now])]

\* ForumModel.generateShareToken on a forum that exists (index i of data.forums).
generateShareToken(data, i, token, now) ==
    [data EXCEPT !.forums[i].shareToken = token,
                 !.forums[i].isPublic = TRUE,
                 !.forums[i].updatedAt = now]

\* forumyzedForum.forumData.threads of a stored forum; iterating it throws a
\* TypeError when forumData has no threads.
HasThreads(forum) == "threads" \in DOMAIN forum.forumData

\* ForumModel.addReply on a forum that exists (index i) and has threads: the
\* result of pushReply is dropped, updatedAt is set in either case.
addReply(data, i, threadId, reply, now) ==
    LET pushed == pushReply(data.forums[i].forumData.threads, threadId, reply)
    IN [data EXCEPT !.forums[i].forumData.threads = pushed.threads,
                    !.forums[i].updatedAt = now]

\* ------------------------------------------------------------ state
VARIABLES
    dbFile,      \* backend/db.json: whether it exists, and its JSON text
    clock,       \* what new Date() reads: each handler that reads it finds a later instant
    uuidCount,   \* how many times uuidv4() has been called
    pc,          \* per request slot: "idle", or "loaded" (db.load() has resolved)
    req,         \* per request slot: the request being handled
    snap,        \* per request slot: the object db.load() returned to it
    last,        \* the response to the latest request (none while its model call runs)
    submitted,   \* history: (id, forumData as received) of every successful save
    touched,     \* history: ids of forums written by a later share or reply
    issued       \* history: (forum id, token) per share response, oldest first

forumVars == <<dbFile, clock, uuidCount, pc, req, snap, last, submitted, touched, issued>>

Procs == {1, 2}      \* request slots: up to two requests in flight
OneAtATime == {1}    \* request slots when requests arrive one after the other

\* ------------------------------------------------------------ inputs
\* forumData as the client sends it (JSON text).
ThreadsNested == <<T("t1", <<T("t2", <<>>), TN("t3")>>), T("t2", <<>>)>>
ForumDataDocs ==
    { [threads |-> ThreadsNested, total |-> "3"],
      [threads |-> <<TN("t1")>>, total |-> "-0"],
      [total |-> "1e999"] }
NotAnObject == [string |-> "oops"]   \* typeof forumData === 'string'
IsObject(forumData) == "string" \notin DOMAIN forumData

VideoIdInputs == VideoIds \cup {"../etc"}
UserIds == {null, "alice"}           \* req.headers['x-user-id'] || null
\* Route parameters: the first two uuids (forums, once created), and a malformed one.
ForumIdInputs == {Uuid(1), Uuid(2)}
IdInputs == ForumIdInputs \cup {"not-a-uuid"}
TokenInputs == {ShareTokenOf(2), ShareTokenOf(3), "bad token"}
\* Save requests: the valid ones, and one per validation failure.
SaveInputs ==
    [videoId : VideoIds, doc : ForumDataDocs, userId : {null}]
    \cup {[videoId |-> CHOOSE v \in VideoIds : TRUE,
           doc |-> [threads |-> ThreadsNested, total |-> "3"], userId |-> "alice"],
          [videoId |-> "../etc", doc |-> CHOOSE d \in ForumDataDocs : TRUE, userId |-> null],
          [videoId |-> CHOOSE v \in VideoIds : TRUE, doc |-> NotAnObject, userId |-> null]}
ThreadIdInputs == {"", "t1", "t2", "t3", "nope"}
TextInputs == {"", "a<b", "x5001"}
\* Reply requests: the valid ones, and one per validation failure.
ReplyInputs ==
    [id : ForumIdInputs, threadId : ThreadIdInputs \ {""}, text : {"a<b"},
     category : {"spam"}]
    \cup {[id |-> Uuid(1), threadId |-> "t1", text |-> "a<b", category |-> "hell"],
          [id |-> "not-a-uuid", threadId |-> "t1", text |-> "a<b", category |-> "spam"],
          [id |-> Uuid(1), threadId |-> "", text |-> "a<b", category |-> "spam"],
          [id |-> Uuid(1), threadId |-> "t1", text |-> "", category |-> "spam"],
          [id |-> Uuid(1), threadId |-> "t1", text |-> "x5001", category |-> "spam"]}

\* text.length
Length(text) ==
    CASE text = "" -> 0 [] text = "a<b" -> 3 [] OTHER -> 5001
MaxTextLength == 5000

\* sanitizeInput: validator.escape(validator.trim(input))
sanitizeInput(input) == IF input = "a<b" THEN "a&lt;b" ELSE input

\* ------------------------------------------------------------ responses
NoReply == [id |-> "", author |-> "", text |-> "", category |-> "", replies |-> <<>>]
NoRequest ==
    [route |-> "none", id |-> "", threadId |-> "", reply |-> NoReply,
     videoId |-> "", forumData |-> NotAnObject, userId |-> null]

NoResponse ==
    [proc |-> 0, route |-> "none", status |-> 0, error |-> "", id |-> "",
     shareToken |-> "", forum |-> Undefined, list |-> <<>>, audioUrl |-> "",
     threw |-> "", wrote |-> FALSE, before |-> NoFile, after |-> NoFile,
     loaded |-> EmptyStructure, request |-> NoRequest]

\* res.status(status).json({ error })
ErrorResponse(p, route, status, error) ==
    [NoResponse EXCEPT !.proc = p, !.route = route, !.status = status,
                       !.error = error, !.before = dbFile, !.after = dbFile]

\* The customMessage each route passes to handleError.
GenericMessage(route) ==
    CASE route = "forumize" -> "Failed to process video"
      [] route = "save" -> "Failed to save forum"
      [] route = "library" -> "Failed to load forums"
      [] route = "get" -> "Failed to retrieve forum"
      [] route = "share" -> "Failed to generate share token"
      [] route = "shared" -> "Failed to retrieve shared forum"
      [] route = "reply" -> "Failed to add reply"
      [] route = "audio" -> "Failed to generate audio summary"
      [] OTHER -> "An error occurred"

\* An error handler that answers with the error's own message.
handleErrorLeaks(p, route, error, customMessage) ==
    [ErrorResponse(p, route, 500, error) EXCEPT !.threw = error]

\* handleError(res, error, customMessage): the error is logged, the client gets
\* status 500 and the custom message.
handleError(p, route, error, customMessage) ==
    [ErrorResponse(p, route, 500, customMessage) EXCEPT !.threw = error]

\* What the catch block of a route answers when the handler threw `error`.
Caught(p, route, error) == handleError(p, route, error, GenericMessage(route))

\* ------------------------------------------------------------ actions
InitForum ==
    /\ dbFile = NoFile
    /\ clock = 0
    /\ uuidCount = 0
    /\ pc = [p \in Procs |-> "idle"]
    /\ req = [p \in Procs |-> NoRequest]
    /\ snap = [p \in Procs |-> EmptyStructure]
    /\ last = NoResponse
    /\ submitted = {}
    /\ touched = {}
    /\ issued = <<>>

\* Requests that will still call uuidv4() once db.load() has resolved.
Reserved ==
    Cardinality({q \in Procs : pc[q] = "loaded" /\ req[q].route \in {"save", "share"}})
UuidLeft == uuidCount + Reserved < MaxUuid

\* A handler that answers without calling the model.
Answer(p, response) ==
    /\ last' = response
    /\ UNCHANGED <<dbFile, clock, uuidCount, pc, req, snap, submitted, touched, issued>>

\* A handler whose model call has started: db.load() resolves with the file
\* as it is now, and the rest of the call runs in a later step.
Await(p, request) ==
    /\ req' = [req EXCEPT ![p] = request]
    /\ snap' = [snap EXCEPT ![p] = load(dbFile)]
    /\ pc' = [pc EXCEPT ![p] = "loaded"]
    /\ last' = NoResponse
    /\ UNCHANGED <<dbFile, clock, submitted, touched, issued>>

\* The handler of slot p is over.
Release(p) ==
    /\ pc' = [pc EXCEPT ![p] = "idle"]
    /\ req' = [req EXCEPT ![p] = NoRequest]
    /\ snap' = [snap EXCEPT ![p] = EmptyStructure]

ServiceErrors == {"YOUTUBE_API_KEY is not set in environment"}
WriteError == "EACCES: permission denied, open 'db.json'"
NotIterable == "forumyzedForum.forumData.threads is not iterable"
NoSlice == "Cannot read properties of undefined (reading 'slice')"

\* app.post('/api/forumize'): outcome is "ok" or the message forumizeService throws with.
Forumize(p, videoId, outcome) ==
    /\ pc[p] = "idle"
    /\ Answer(p,
         IF ~isValidVideoId(videoId)
         THEN ErrorResponse(p, "forumize", 400, "Invalid YouTube video ID format")
         ELSE IF outcome = "ok"
         THEN [ErrorResponse(p, "forumize", 200, "") EXCEPT !.request.videoId = videoId]
         ELSE Caught(p, "forumize", outcome))

\* app.post('/api/forum/save'), up to the await of db.load() in ForumModel.create
SaveStart(p, videoId, doc, userId) ==
    /\ pc[p] = "idle"
    /\ LET forumData == IF IsObject(doc) THEN JSONParseForumData(doc) ELSE doc
       IN IF ~isValidVideoId(videoId)
          THEN Answer(p, ErrorResponse(p, "save", 400, "Invalid video ID"))
          ELSE IF ~IsObject(forumData)
          THEN Answer(p, ErrorResponse(p, "save", 400, "Invalid forum data"))
          ELSE /\ UuidLeft
               /\ Await(p, [NoRequest EXCEPT !.route = "save",
                                             !.videoId = sanitizeInput(videoId),
                                             !.forumData = forumData,
                                             !.userId = userId])
               /\ UNCHANGED uuidCount

\* ForumModel.create after db.load(), db.save and the response, working on
\* data; writeOk is whether fs.writeFile succeeded.
SaveFinishOn(p, writeOk, data) ==
    /\ pc[p] = "loaded" /\ req[p].route = "save"
    /\ LET made == create(data, req[p], req[p].userId, Uuid(uuidCount + 1), clock)
           ok == [ErrorResponse(p, "save", 200, "") EXCEPT
                     !.id = made.forum.id, !.shareToken = made.forum.shareToken,
                     !.wrote = TRUE, !.after = save(made.data),
                     !.loaded = snap[p], !.request = req[p]]
       IN /\ uuidCount' = uuidCount + 1
          /\ IF writeOk
             THEN /\ dbFile' = save(made.data)
                  /\ last' = ok
                  /\ submitted' = submitted \cup
                        {[id |-> made.forum.id, forumData |-> req[p].forumData]}
             ELSE /\ last' = [Caught(p, "save", WriteError) EXCEPT !.request = req[p]]
                  /\ UNCHANGED <<dbFile, submitted>>
    /\ clock' = clock + 1
    /\ Release(p)
    /\ UNCHANGED <<touched, issued>>

\* A create that reads the file again when it writes, as under a file lock.
SaveFinishLocked(p, writeOk) == SaveFinishOn(p, writeOk, load(dbFile))

\* create works on the object its own db.load() returned.
SaveFinish(p, writeOk) == SaveFinishOn(p, writeOk, snap[p])

\* What the client reads from res.json(forum).
ResJson(forum) == JSONParseForum(JSONStringifyForum(forum))

\* app.get('/api/forum/library')
Library(p, userId) ==
    /\ pc[p] = "idle"
    /\ Answer(p, [ErrorResponse(p, "library", 200, "") EXCEPT
                     !.list = findByUser(load(dbFile), userId),
                     !.request.userId = userId])

\* app.get('/api/forum/:id')
GetForum(p, id) ==
    /\ pc[p] = "idle"
    /\ LET forum == findById(load(dbFile), id)
       IN Answer(p,
            IF ~isValidUUID(id)
            THEN ErrorResponse(p, "get", 400, "Invalid forum ID")
            ELSE IF forum = Undefined
            THEN [ErrorResponse(p, "get", 404, "Forum not found") EXCEPT !.request.id = id]
            ELSE [ErrorResponse(p, "get", 200, "") EXCEPT
                     !.forum = ResJson(forum), !.request.id = id])

\* app.post('/api/forum/:id/share'), up to the await of db.load()
ShareStart(p, id) ==
    /\ pc[p] = "idle"
    /\ IF ~isValidUUID(id)
       THEN Answer(p, ErrorResponse(p, "share", 400, "Invalid forum ID"))
       ELSE /\ UuidLeft
            /\ Await(p, [NoRequest EXCEPT !.route = "share", !.id = id])
            /\ UNCHANGED uuidCount

\* ForumModel.generateShareToken after db.load(), and the response
ShareFinish(p, writeOk) ==
    /\ pc[p] = "loaded" /\ req[p].route = "share"
    /\ LET i == IndexById(snap[p].forums, req[p].id)
           token == ShareTokenOf(uuidCount + 1)
           data == generateShareToken(snap[p], i, token, clock)
       IN IF i = 0
          THEN /\ last' = [ErrorResponse(p, "share", 404, "Forum not found") EXCEPT
                              !.request = req[p], !.loaded = snap[p]]
               /\ UNCHANGED <<dbFile, clock, uuidCount, touched, issued>>
          ELSE /\ uuidCount' = uuidCount + 1
               /\ clock' = clock + 1
               /\ IF writeOk
                  THEN /\ dbFile' = save(data)
                       /\ last' = [ErrorResponse(p, "share", 200, "") EXCEPT
                                      !.shareToken = data.forums[i].shareToken,
                                      !.wrote = TRUE, !.after = save(data),
                                      !.loaded = snap[p], !.request = req[p]]
                       /\ touched' = touched \cup {req[p].id}
                       /\ issued' = Append(issued, [id |-> req[p].id,
                                                    token |-> data.forums[i].shareToken])
                  ELSE /\ last' = [Caught(p, "share", WriteError) EXCEPT !.request = req[p]]
                       /\ UNCHANGED <<dbFile, touched, issued>>
    /\ Release(p)
    /\ UNCHANGED submitted

\* app.get('/api/forum/share/:token')
GetShared(p, token) ==
    /\ pc[p] = "idle"
    /\ LET forum == findByShareToken(load(dbFile), token)
       IN Answer(p,
            IF ~isValidToken(token)
            THEN ErrorResponse(p, "shared", 400, "Invalid share token")
            ELSE IF forum = Undefined
            THEN ErrorResponse(p, "shared", 404, "Forum not found")
            ELSE [ErrorResponse(p, "shared", 200, "") EXCEPT !.forum = ResJson(forum)])

ReplyCategories == {"spam", "bot", "toxic", "genuine", "question"}

\* app.post('/api/forum/:id/reply'), up to the await of db.load() in addReply
ReplyStart(p, id, threadId, text, category) ==
    /\ pc[p] = "idle"
    /\ IF ~isValidUUID(id)
       THEN Answer(p, ErrorResponse(p, "reply", 400, "Invalid forum ID"))
       ELSE IF threadId = "" \/ text = ""
       THEN Answer(p, ErrorResponse(p, "reply", 400, "threadId and text are required"))
       ELSE IF Length(text) > MaxTextLength
       THEN Answer(p, ErrorResponse(p, "reply", 400,
                                    "Comment too long (max 5000 characters)"))
       ELSE /\ UuidLeft
            /\ uuidCount' = uuidCount + 1
            /\ Await(p, [NoRequest EXCEPT
                    !.route = "reply", !.id = id, !.threadId = threadId,
                    !.reply = [id |-> Uuid(uuidCount + 1),
                               author |-> sanitizeInput("Anonymous"),
                               text |-> sanitizeInput(text),
                               category |-> IF category \in ReplyCategories
                                            THEN category ELSE "genuine",
                               replies |-> <<>>]])

\* ForumModel.addReply after db.load(), and the response
ReplyFinish(p, writeOk) ==
    /\ pc[p] = "loaded" /\ req[p].route = "reply"
    /\ LET i == IndexById(snap[p].forums, req[p].id)
           data == addReply(snap[p], i, req[p].threadId, req[p].reply, clock)
       IN IF i = 0
          THEN /\ last' = [ErrorResponse(p, "reply", 404, "Forum or thread not found")
                              EXCEPT !.request = req[p], !.loaded = snap[p]]
               /\ UNCHANGED <<dbFile, clock, touched>>
          ELSE IF ~HasThreads(snap[p].forums[i])
          THEN /\ last' = [Caught(p, "reply", NotIterable) EXCEPT
                              !.request = req[p], !.loaded = snap[p]]
               /\ UNCHANGED <<dbFile, clock, touched>>
          ELSE IF writeOk
          THEN /\ clock' = clock + 1
               /\ dbFile' = save(data)
               /\ last' = [ErrorResponse(p, "reply", 200, "") EXCEPT
                              !.forum = ResJson(data.forums[i]),
                              !.wrote = TRUE, !.after = save(data),
                              !.loaded = snap[p], !.request = req[p]]
               /\ touched' = touched \cup {req[p].id}
          ELSE /\ clock' = clock + 1
               /\ last' = [Caught(p, "reply", WriteError) EXCEPT
                              !.request = req[p], !.loaded = snap[p]]
               /\ UNCHANGED <<dbFile, touched>>
    /\ Release(p)
    /\ UNCHANGED <<uuidCount, submitted, issued>>

\* app.get('/api/forum/:id/audio'): generateAudioSummary slices forumData.threads
Audio(p, id) ==
    /\ pc[p] = "idle"
    /\ LET forum == findById(load(dbFile), id)
       IN Answer(p,
            IF ~isValidUUID(id)
            THEN ErrorResponse(p, "audio", 400, "Invalid forum ID")
            ELSE IF forum = Undefined
            THEN ErrorResponse(p, "audio", 404, "Forum not found")
            ELSE IF ~HasThreads(forum)
            THEN Caught(p, "audio", NoSlice)
            ELSE [ErrorResponse(p, "audio", 200, "") EXCEPT
                     !.audioUrl = "/audio/placeholder-summary.mp3"])

\* One step of the handler running in slot p.
Handle(p) ==
    \/ \E videoId \in VideoIdInputs, outcome \in {"ok"} \cup ServiceErrors :
          Forumize(p, videoId, outcome)
    \/ \E r \in SaveInputs : SaveStart(p, r.videoId, r.doc, r.userId)
    \/ \E writeOk \in BOOLEAN : SaveFinish(p, writeOk)
    \/ \E userId \in UserIds : Library(p, userId)
    \/ \E id \in IdInputs : GetForum(p, id)
    \/ \E id \in IdInputs : ShareStart(p, id)
    \/ \E writeOk \in BOOLEAN : ShareFinish(p, writeOk)
    \/ \E token \in TokenInputs : GetShared(p, token)
    \/ \E r \in ReplyInputs : ReplyStart(p, r.id, r.threadId, r.text, r.category)
    \/ \E writeOk \in BOOLEAN : ReplyFinish(p, writeOk)
    \/ \E id \in IdInputs : Audio(p, id)

\* ------------------------------------------------------------ botDetection.js
VARIABLES
    userPostingHistory,  \* Map: userId -> array of { timestamp, threadId }
    botUsers,            \* Set of the users flagged as bots
    botCheck,            \* what the latest detectBot call returned (none after a recordPost)
    recorded,            \* history: how many posts were recorded per (userId, timestamp)
    lastTime,            \* history: the time passed to the latest call
    inOrder              \* history: no call was passed an earlier time than the call before it

botVars == <<userPostingHistory, botUsers, botCheck, recorded, lastTime, inOrder>>

POSTING_THRESHOLD == 10
TIME_WINDOW == 30000
FiveMinutes == 300000

MaxPosts == 11       \* recordPost is called at most this many times in a run

BotUserIds == {"mallory", "bob"}
BotThreadIds == {"t1"}
RecordTimes == {0, FiveMinutes}
DetectTimes == {TIME_WINDOW - 1, TIME_WINDOW, FiveMinutes + TIME_WINDOW - 1}

NoBotCheck ==
    [userId |-> "", currentTime |-> 0, isBot |-> FALSE, postCountIn30s |-> 0,
     shouldSendToHell |-> FALSE, wasFlaggedAsBot |-> FALSE]

InitBot ==
    /\ userPostingHistory = <<>>
    /\ botUsers = {}
    /\ botCheck = NoBotCheck
    /\ recorded = [x \in BotUserIds \X RecordTimes |-> 0]
    /\ lastTime = 0
    /\ inOrder = TRUE

\* userPostingHistory.get(userId), after the has/set that creates a missing entry
HistoryOf(userId) ==
    IF userId \in DOMAIN userPostingHistory THEN userPostingHistory[userId] ELSE <<>>

\* userPostingHistory.set(userId, entries)
SetHistory(userId, entries) ==
    [u \in DOMAIN userPostingHistory \cup {userId} |->
        IF u = userId THEN entries ELSE userPostingHistory[u]]

\* The history of the times passed to the calls.
NoteTime(t) ==
    /\ inOrder' = (inOrder /\ t >= lastTime)
    /\ lastTime' = IF inOrder /\ t >= lastTime THEN t ELSE 0

TotalRecorded ==
    LET RECURSIVE Sum(_)
        Sum(S) == IF S = {} THEN 0
                  ELSE LET x == CHOOSE x \in S : TRUE IN recorded[x] + Sum(S \ {x})
    IN Sum(DOMAIN recorded)

\* A flag raised one post late: more than the threshold.
isOverThresholdStrict(count) == count > POSTING_THRESHOLD

\* const isBot = validEntries.length >= POSTING_THRESHOLD
isOverThreshold(count) == count >= POSTING_THRESHOLD

\* detectBot(userId, currentTime)
detectBot(userId, currentTime) ==
    LET history == HistoryOf(userId)
        validEntries ==
            SelectSeq(history, LAMBDA entry : currentTime - entry.timestamp < TIME_WINDOW)
        isBot == isOverThreshold(Len(validEntries))
        flagged == IF isBot THEN botUsers \cup {userId} ELSE botUsers
    IN /\ userPostingHistory' = SetHistory(userId, validEntries)
       /\ botUsers' = flagged
       /\ botCheck' = [userId |-> userId, currentTime |-> currentTime,
                       isBot |-> isBot, postCountIn30s |-> Len(validEntries),
                       shouldSendToHell |-> isBot,
                       wasFlaggedAsBot |-> userId \in flagged]
       /\ NoteTime(currentTime)
       /\ UNCHANGED recorded

\* recordPost(userId, threadId, timestamp)
recordPost(userId, threadId, timestamp) ==
    /\ TotalRecorded < MaxPosts
    /\ LET history == Append(HistoryOf(userId),
                             [timestamp |-> timestamp, threadId |-> threadId])
           fiveMinutesAgo == timestamp - FiveMinutes
           filtered == SelectSeq(history, LAMBDA entry : entry.timestamp > fiveMinutesAgo)
       IN userPostingHistory' = SetHistory(userId, filtered)
    /\ recorded' = [recorded EXCEPT ![<<userId, timestamp>>] = @ + 1]
    /\ botCheck' = NoBotCheck
    /\ NoteTime(timestamp)
    /\ UNCHANGED botUsers

NextBot ==
    \/ \E userId \in BotUserIds, threadId \in BotThreadIds, timestamp \in RecordTimes :
          recordPost(userId, threadId, timestamp)
    \/ \E userId \in BotUserIds, currentTime \in DetectTimes :
          detectBot(userId, currentTime)

\* ------------------------------------------------------------ classifier.js
VARIABLES
    comments,        \* the array passed to classifyComments
    classified,      \* the array it returned
    classifyDone     \* whether it has been called

classifyVars == <<comments, classified, classifyDone>>

MaxComments == 2     \* length of the array classified

\* Comment texts are sequences of characters.
UpperCase == <<"A", "B", "C", "D", "E", "F", "G", "H", "I", "J", "K", "L", "M", "N", "O", "P", "Q", "R", "S", "T", "U", "V", "W", "X", "Y", "Z">>
LowerCase == <<"a", "b", "c", "d", "e", "f", "g", "h", "i", "j", "k", "l", "m", "n", "o", "p", "q", "r", "s", "t", "u", "v", "w", "x", "y", "z">>

\* String.prototype.toLowerCase
toLowerCase(text) ==
    [i \in 1..Len(text) |->
        IF \E k \in 1..Len(UpperCase) : UpperCase[k] = text[i]
        THEN LowerCase[CHOOSE k \in 1..Len(UpperCase) : UpperCase[k] = text[i]]
        ELSE text[i]]

\* text contains word
Contains(text, word) ==
    \E i \in 1..(Len(text) - Len(word) + 1) : SubSeq(text, i, i + Len(word) - 1) = word

\* /a|b|c/.test(text) for an alternation of literal words
RegexTest(alternatives, text) == \E word \in alternatives : Contains(text, word)

\* A spam rule that lacks the www alternative.
SpamPatternWithoutWww == {<<"h", "t", "t", "p">>, <<".", "c", "o", "m">>,
                          <<"s", "u", "b", "s", "c", "r", "i", "b", "e">>}
\* /http|www|\.com|subscribe/
SpamPattern == {<<"h", "t", "t", "p">>, <<"w", "w", "w">>, <<".", "c", "o", "m">>, <<"s", "u", "b", "s", "c", "r", "i", "b", "e">>}
\* /bot|automated|robot/
BotPattern == {<<"b", "o", "t">>, <<"a", "u", "t", "o", "m", "a", "t", "e", "d">>, <<"r", "o", "b", "o", "t">>}
\* /hate|kill|stupid|idiot|racist|expletive/
ToxicPattern == {<<"h", "a", "t", "e">>, <<"k", "i", "l", "l">>, <<"s", "t", "u", "p", "i", "d">>, <<"i", "d", "i", "o", "t">>, <<"r", "a", "c", "i", "s", "t">>, <<"e", "x", "p", "l", "e", "t", "i", "v", "e">>}
\* /[\?]/
QuestionPattern == {<<"?">>}

\* classifyComments(comments)
classifyComments(list) ==
    [i \in 1..Len(list) |->
        LET comment == list[i]
            text == toLowerCase(comment.text)
            category ==
                IF RegexTest(SpamPattern, text) THEN "spam"
                ELSE IF RegexTest(BotPattern, text) THEN "bot"
                ELSE IF RegexTest(ToxicPattern, text) THEN "toxic"
                ELSE IF RegexTest(QuestionPattern, text) THEN "question"
                ELSE "genuine"
        IN [k \in DOMAIN comment \cup {"category"} |->
               IF k = "category" THEN category ELSE comment[k]]]

MockComments ==
    { [id |-> "c1", author |-> "ann", text |-> <<"V", "i", "s", "i", "t", " ", "H", "T", "T", "P", ":", "/", "/", "x">>],
      [id |-> "c2", author |-> "ann", text |-> <<"W", "W", "W", " ", "r", "o", "b", "o", "t">>],
      [id |-> "c3", author |-> "ann", text |-> <<"a", ".", "c", "o", "m", "?">>],
      [id |-> "c4", author |-> "ann", text |-> <<"a", "c", "o", "m">>],
      [id |-> "c5", author |-> "ann", text |-> <<"S", "u", "b", "s", "c", "r", "i", "b", "e">>],
      [id |-> "c6", author |-> "ann", text |-> <<"I", " ", "h", "a", "t", "e", " ", "b", "o", "t", "s">>],
      [id |-> "c7", author |-> "ann", text |-> <<"A", "u", "t", "o", "m", "a", "t", "e", "d">>],
      [id |-> "c8", author |-> "ann", text |-> <<"k", "i", "l", "l", "?">>],
      [id |-> "c9", author |-> "ann", text |-> <<"w", "h", "y", "?">>],
      [id |-> "c10", author |-> "ann", text |-> <<"n", "i", "c", "e">>],
      [id |-> "c11", author |-> "ann", text |-> <<"S", "t", "u", "p", "i", "d">>],
      [id |-> "c12", author |-> "bob", text |-> <<"n", "i", "c", "e">>, category |-> "spam",
       replies |-> <<>>] }

BoundedSeq(S, n) == UNION {[1..k -> S] : k \in 0..n}

InitClassifyIdle == comments = <<>> /\ classified = <<>> /\ classifyDone = FALSE

InitClassify ==
    /\ comments \in BoundedSeq(MockComments, MaxComments)
    /\ classified = <<>>
    /\ classifyDone = FALSE

Classify ==
    /\ ~classifyDone
    /\ classified' = classifyComments(comments)
    /\ classifyDone' = TRUE
    /\ UNCHANGED comments

\* ------------------------------------------------------------ aiCategorizer (Gemini)
VARIABLES
    aiComments,      \* the array passed to categorizeCommentsWithAI
    aiOutcome,       \* what model.generateContent does: throws, or the response text
    aiResult,        \* what categorizeCommentsWithAI returned
    aiDone           \* whether it has been called

aiVars == <<aiComments, aiOutcome, aiResult, aiDone>>

MaxAiComments == 2   \* length of the array categorized

\* JSON values of the answer: an array, something else, or a missing property.
Arr(items) == [type |-> "array", items |-> items]
NotArray == [type |-> "string", items |-> <<>>]
Missing == [type |-> "undefined", items |-> <<>>]

Categorization(topics, spam, bots, toxic) ==
    [type |-> "object", topics |-> topics, spam |-> spam, bots |-> bots, toxic |-> toxic]
JsonNull == [type |-> "null", topics |-> Missing, spam |-> Missing, bots |-> Missing,
             toxic |-> Missing]

Topic(title, commentIds) == [title |-> title, commentIds |-> commentIds]

AiDocs ==
    { Categorization(Arr(<<Topic("Music", Arr(<<1, 2>>))>>), Arr(<<2>>), Arr(<<>>), Arr(<<>>)),
      Categorization(Arr(<<>>), Arr(<<9>>), Arr(<<1>>), Arr(<<1>>)),
      Categorization(Arr(<<Topic("Music", Arr(<<1>>))>>), Arr(<<>>), Arr(<<>>), Missing),
      Categorization(NotArray, Arr(<<>>), Arr(<<>>), Arr(<<>>)),
      Categorization(Arr(<<Topic("Music", Missing)>>), Arr(<<>>), Arr(<<>>), Arr(<<>>)),
      Categorization(Arr(<<>>), NotArray, Arr(<<>>), Arr(<<>>)),
      JsonNull }

\* The response text, as a sequence of pieces: prose, a ``` fence, the text of a
\* JSON value, or text that is no JSON.
Prose == [piece |-> "prose", value |-> JsonNull]
Fence == [piece |-> "fence", value |-> JsonNull]
Garbage == [piece |-> "garbage", value |-> JsonNull]
Json(value) == [piece |-> "json", value |-> value]

GoodDoc == Categorization(Arr(<<Topic("Music", Arr(<<1, 2>>))>>), Arr(<<2>>), Arr(<<>>), Arr(<<>>))
AiResponses ==
    {<<Json(d)>> : d \in AiDocs}
    \cup { <<Fence, Json(GoodDoc), Fence>>,
           <<Prose, Fence, Json(GoodDoc), Fence, Prose>>,
           <<Prose, Json(GoodDoc)>>,
           <<Fence, Garbage, Fence>>,
           <<Garbage>>,
           <<>> }

AiOutcomes ==
    {[threw |-> FALSE, response |-> r] : r \in AiResponses}
    \cup {[threw |-> TRUE, response |-> <<>>]}

AiCommentPool ==
    { [author |-> "ann", text |-> "great song"],
      [author |-> "spamela", text |-> "buy followers"],
      [author |-> "ghost"] }

\* response.match(/```(?:json)?\s*([\s\S]*?)```/): the text between the first
\* fence and the next one, or the whole response when there is no such pair.
ExtractJsonText(response) ==
    LET fences == {i \in 1..Len(response) : response[i] = Fence}
    IN IF Cardinality(fences) >= 2
       THEN LET first == CHOOSE i \in fences : \A j \in fences : i <= j
                second == CHOOSE i \in fences \ {first} : \A j \in fences \ {first} : i <= j
            IN SubSeq(response, first + 1, second - 1)
       ELSE response

\* JSON.parse(jsonText.trim()) succeeds on the text of exactly one JSON value.
ParseSucceeds(jsonText) == Len(jsonText) = 1 /\ jsonText[1].piece = "json"

\* An answer in which a missing list counts as an empty one.
IsArrayOrMissing(value) == value.type \in {"array", "undefined"}

\* value.map(...) runs: value is an array (anything else throws a TypeError).
IsArray(value) == value.type = "array"

\* ids.map(id => comments[id - 1]).filter(Boolean)
CommentsAt(list, ids) ==
    LET kept == SelectSeq(ids, LAMBDA id : id \in 1..Len(list))
    IN [k \in 1..Len(kept) |-> list[kept[k]]]

Includes(ids, idx) == \E k \in 1..Len(ids) : ids[k] = idx

\* The statements of the try block throw: a comment has no text, the Gemini call
\* fails, the text is no JSON, or a .map is applied to something that has none.
TryThrows(list, outcome) ==
    \/ \E i \in 1..Len(list) : "text" \notin DOMAIN list[i]
    \/ outcome.threw
    \/ ~ParseSucceeds(ExtractJsonText(outcome.response))
    \/ LET categorization == ExtractJsonText(outcome.response)[1].value
       IN \/ categorization.type = "null"
          \/ ~IsArray(categorization.topics)
          \/ \E t \in 1..Len(categorization.topics.items) :
                ~IsArray(categorization.topics.items[t].commentIds)
          \/ ~IsArray(categorization.spam)
          \/ ~IsArray(categorization.bots)
          \/ ~IsArray(categorization.toxic)

\* The object built from a parsed answer.
Organized(list, categorization) ==
    [topics |-> [t \in 1..Len(categorization.topics.items) |->
                    LET topic == categorization.topics.items[t]
                    IN [title |-> topic.title,
                        commentIds |-> topic.commentIds.items,
                        comments |-> CommentsAt(list, topic.commentIds.items)]],
     spam |-> CommentsAt(list, categorization.spam.items),
     bots |-> CommentsAt(list, categorization.bots.items),
     toxic |-> CommentsAt(list, categorization.toxic.items),
     genuine |-> LET keep == {i \in 1..Len(list) :
                                 /\ ~Includes(categorization.spam.items, i)
                                 /\ ~Includes(categorization.bots.items, i)
                                 /\ ~Includes(categorization.toxic.items, i)}
                     RECURSIVE Pick(_)
                     Pick(i) == IF i > Len(list) THEN <<>>
                                ELSE (IF i \in keep THEN <<list[i]>> ELSE <<>>) \o Pick(i + 1)
                 IN Pick(1)]

\* categorizeCommentsWithAI(comments)
categorizeCommentsWithAI(list, outcome) ==
    IF list = <<>>
    THEN [topics |-> <<>>, spam |-> <<>>, bots |-> <<>>, genuine |-> <<>>]
    ELSE IF TryThrows(list, outcome)
    THEN [topics |-> <<[title |-> "All Comments",
                        description |-> "Unable to categorize - showing all comments",
                        comments |-> list,
                        sentiment |-> "neutral"]>>,
          spam |-> <<>>, bots |-> <<>>, toxic |-> <<>>, genuine |-> list]
    ELSE Organized(list, ExtractJsonText(outcome.response)[1].value)

NoAiOutcome == [threw |-> FALSE, response |-> <<>>]
NoAiResult == [topics |-> <<>>, spam |-> <<>>, bots |-> <<>>, genuine |-> <<>>]

InitAiIdle ==
    aiComments = <<>> /\ aiOutcome = NoAiOutcome /\ aiResult = NoAiResult /\ aiDone = FALSE

InitAi ==
    /\ aiComments \in BoundedSeq(AiCommentPool, MaxAiComments)
    /\ aiOutcome \in AiOutcomes
    /\ aiResult = NoAiResult
    /\ aiDone = FALSE

Categorize ==
    /\ ~aiDone
    /\ aiResult' = categorizeCommentsWithAI(aiComments, aiOutcome)
    /\ aiDone' = TRUE
    /\ UNCHANGED <<aiComments, aiOutcome>>

\* ------------------------------------------------------------ db.js on its own
VARIABLES
    dbLastSaved,   \* history: the text the last completed save wrote (none before the first)
    dbLoad         \* what the latest load() call did (none after another operation)

dbVars == <<dbLastSaved, dbLoad>>

MaxDbForums == 3     \* saves in a run of the store on its own add at most this many forums

NoText == [none |-> TRUE]
NoLoad == [called |-> FALSE, raised |-> FALSE, value |-> EmptyStructure]

InitDb ==
    /\ dbLastSaved = NoText
    /\ dbLoad = NoLoad

\* What fs.writeFile can do: write the text, fail before touching the file
\* (EACCES on open), or fail after the file was truncated (ENOSPC, a crash).
WriteOutcomes == {"written", "refused", "cut"}

\* The objects a caller passes to save: what it loaded, with one more forum.
DbMutations(data) ==
    {data} \cup
    {create(data, [videoId |-> "dQw4w9WgXcQ", forumData |-> JSONParseForumData(doc)],
            null, Uuid(Len(data.forums) + 1), 0).data :
        doc \in IF Len(data.forums) < MaxDbForums THEN ForumDataDocs ELSE {}}

\* save(data) of db.js, called with an object derived from a load.
DbSave(data, outcome) ==
    /\ dbFile' = CASE outcome = "written" -> save(data)
                   [] outcome = "refused" -> dbFile
                   [] OTHER -> [exists |-> TRUE, raw |-> InvalidJson]
    /\ dbLastSaved' = IF outcome = "written" THEN JSONStringify(data) ELSE dbLastSaved
    /\ dbLoad' = NoLoad

\* db.json is deleted (a fresh checkout has none).
DbUnlink ==
    /\ dbFile.exists
    /\ dbFile' = NoFile
    /\ dbLoad' = NoLoad
    /\ UNCHANGED dbLastSaved

\* load() of db.js: the try block returns the parsed text, the catch block the
\* empty structure; nothing is rethrown.
DbLoad ==
    /\ dbLoad' = [called |-> TRUE, raised |-> FALSE, value |-> load(dbFile)]
    /\ UNCHANGED <<dbFile, dbLastSaved>>

NextDb ==
    /\ \/ \E data \in DbMutations(load(dbFile)), outcome \in WriteOutcomes :
             DbSave(data, outcome)
       \/ DbUnlink
       \/ DbLoad
    /\ UNCHANGED <<clock, uuidCount, pc, req, snap, last, submitted, touched, issued>>

\* ------------------------------------------------------------ timeoutSystem.js
VARIABLES
    timeoutUsers,   \* Map: userId -> timeout entry
    userVotes,      \* Map: userId -> { restore: Set, keep: Set }
    suspensions,    \* Map: userId -> suspendUntil (ms)
    tHours,         \* the wall clock, in whole hours since the start
    flagging,       \* the flagUserForTimeout call that awaits its AI question, if any
    tLast,          \* what the latest call of the timeout system did
    ballots,        \* history: each voter's latest vote since the user was flagged
    reached,        \* history: a vote since the flag ended at or over a threshold
    restoredSince,  \* history: restoreUser ran since the user entered timeout
    revotes,        \* history: votes cast since the flag by members who had voted before
    everRestored    \* history: restoreUser ran at some time

timeoutVars ==
    <<timeoutUsers, userVotes, suspensions, tHours, flagging, tLast, ballots, reached,
      restoredSince, revotes, everRestored>>

MaxVoters == 15      \* community members who vote
MaxRevotes == 1      \* votes by members who change or repeat their vote
MaxJury == 6         \* community members who vote while the clock runs
MaxHours == 2        \* hours the clock runs

RestoreThreshold == 5
KeepThreshold == 10
TwoHours == 7200000

TimeoutUserIds == {"mallory"}
Voters == 1..MaxVoters
\* Date.now()
Now == tHours * 3600000

NoEntry ==
    [present |-> FALSE, status |-> "", reason |-> "", votes |-> [restore |-> 0, keep |-> 0],
     onProbation |-> FALSE, suspendUntil |-> 0]
NoVotes == [present |-> FALSE, restore |-> {}, keep |-> {}]
NoTimeoutCall ==
    [op |-> "none", userId |-> "", status |-> 0, threw |-> "", action |-> "",
     before |-> ""]

InitTimeout ==
    /\ timeoutUsers = [u \in TimeoutUserIds |-> NoEntry]
    /\ userVotes = [u \in TimeoutUserIds |-> NoVotes]
    /\ suspensions = [u \in TimeoutUserIds |-> 0]
    /\ tHours = 0
    /\ flagging = ""
    /\ tLast = NoTimeoutCall
    /\ ballots = [v \in Voters |-> "none"]
    /\ reached = FALSE
    /\ restoredSince = FALSE
    /\ revotes = 0
    /\ everRestored = FALSE

\* timeoutUsers.has(userId) / timeoutUsers.get(userId)
HasEntry(userId) == userId \in TimeoutUserIds /\ timeoutUsers[userId].present

\* isSuspended(userId): an expired suspension is deleted by the check.
isSuspendedAtEnd(userId) ==
    userId \in TimeoutUserIds /\ suspensions[userId] # 0 /\ Now <= suspensions[userId]
isSuspended(userId) ==
    userId \in TimeoutUserIds /\ suspensions[userId] # 0 /\ Now < suspensions[userId]
SuspensionsAfterCheck(userId) ==
    IF userId \in TimeoutUserIds /\ suspensions[userId] # 0 /\ Now >= suspensions[userId]
    THEN [suspensions EXCEPT ![userId] = 0]
    ELSE suspensions

\* isOnProbation(userId): entry?.onProbation === true
isOnProbation(userId) == HasEntry(userId) /\ timeoutUsers[userId].onProbation

\* restoreUser(userId) on an entry
restoreUser(entry) == [entry EXCEPT !.status = "restored", !.onProbation = TRUE]

\* suspendUser(userId, durationMs) on an entry; the Map gets the same suspendUntil
suspendUser(entry, durationMs) ==
    [entry EXCEPT !.status = "suspended", !.suspendUntil = Now + durationMs]

\* A threshold check that looks at the keep votes first.
ThresholdActionKeepFirst(restore, keep) ==
    IF keep >= KeepThreshold THEN "suspend"
    ELSE IF restore >= RestoreThreshold THEN "restore"
    ELSE "none"

\* if (entry.votes.restore >= 5) ... else if (entry.votes.keep >= 10) ...
ThresholdAction(restore, keep) ==
    IF restore >= RestoreThreshold THEN "restore"
    ELSE IF keep >= KeepThreshold THEN "suspend"
    ELSE "none"

\* The entry's vote counts after a vote: restore and keep are (re)written, what
\* else the votes object holds (engage, skip) stays.
TallyRestoreOnly(votes, restore, keep) ==
    [k \in DOMAIN votes \cup {"restore", "keep"} |->
        CASE k = "restore" -> restore
          [] k = "keep" -> (IF "keep" \in DOMAIN votes THEN votes.keep ELSE 0)
          [] OTHER -> votes[k]]
Tally(votes, restore, keep) ==
    [k \in DOMAIN votes \cup {"restore", "keep"} |->
        CASE k = "restore" -> restore
          [] k = "keep" -> keep
          [] OTHER -> votes[k]]

\* Voters are interchangeable: a member who has not voted yet is taken from
\* the low end of the pool for a restore vote and from the high end for a keep
\* vote; the first restore voter and the first keep voter may vote again.
First(S) == CHOOSE v \in S : \A w \in S : v <= w
Latest(S) == CHOOSE v \in S : \A w \in S : v >= w
VoteInputs(userId, pool) ==
    LET votes == userVotes[userId]
        fresh == pool \ (votes.restore \cup votes.keep)
        again == IF revotes < MaxRevotes
                 THEN (IF votes.restore = {} THEN {} ELSE {First(votes.restore)})
                      \cup (IF votes.keep = {} THEN {} ELSE {First(votes.keep)})
                 ELSE {}
    IN (IF fresh = {} THEN {}
        ELSE {[voterId |-> First(fresh), voteType |-> "restore"],
              [voterId |-> Latest(fresh), voteType |-> "keep"]})
       \cup [voterId : again, voteType : {"restore", "keep"}]

NotInTimeout == "User not in timeout"
NoVoteSets == "Cannot read properties of undefined (reading 'restore')"

\* voteOnTimeoutUser(userId, voterId, voteType)
voteOnTimeoutUser(userId, voterId, voteType) ==
    IF ~HasEntry(userId)
    THEN /\ tLast' = [NoTimeoutCall EXCEPT !.op = "vote", !.userId = userId,
                                          !.status = 500, !.threw = NotInTimeout]
         /\ UNCHANGED <<timeoutUsers, userVotes, suspensions, ballots, reached,
                        restoredSince, revotes, everRestored>>
    ELSE IF ~userVotes[userId].present
    THEN /\ tLast' = [NoTimeoutCall EXCEPT !.op = "vote", !.userId = userId,
                                          !.status = 500, !.threw = NoVoteSets,
                                          !.before = timeoutUsers[userId].status]
         /\ UNCHANGED <<timeoutUsers, userVotes, suspensions, ballots, reached,
                        restoredSince, revotes, everRestored>>
    ELSE LET votes == userVotes[userId]
             entry == timeoutUsers[userId]
             restore == IF voteType = "restore"
                        THEN (votes.restore \ {voterId}) \cup {voterId}
                        ELSE votes.restore \ {voterId}
             keep == IF voteType = "restore"
                     THEN votes.keep \ {voterId}
                     ELSE (votes.keep \ {voterId}) \cup {voterId}
             counted == [entry EXCEPT
                            !.votes = Tally(@, Cardinality(restore), Cardinality(keep))]
             action == ThresholdAction(Cardinality(restore), Cardinality(keep))
             after == CASE action = "restore" -> restoreUser(counted)
                        [] action = "suspend" -> suspendUser(counted, TwoHours)
                        [] OTHER -> counted
         IN /\ userVotes' = [userVotes EXCEPT ![userId].restore = restore,
                                              ![userId].keep = keep]
            /\ timeoutUsers' = [timeoutUsers EXCEPT ![userId] = after]
            /\ suspensions' = IF action = "suspend"
                              THEN [suspensions EXCEPT ![userId] = Now + TwoHours]
                              ELSE suspensions
            /\ ballots' = [ballots EXCEPT ![voterId] = voteType]
            /\ reached' = (reached \/ Cardinality(restore) >= RestoreThreshold
                                   \/ Cardinality(keep) >= KeepThreshold)
            /\ restoredSince' = (restoredSince \/ action = "restore")
            /\ everRestored' = (everRestored \/ action = "restore")
            /\ revotes' = IF voterId \in votes.restore \cup votes.keep
                           THEN revotes + 1 ELSE revotes
            /\ tLast' = [NoTimeoutCall EXCEPT !.op = "vote", !.userId = userId,
                                             !.status = 200, !.action = action,
                                             !.before = entry.status]

VoteTypes == {"restore", "keep"}
\* app.post('/api/timeout/vote')
VoteRoute(userId, voterId, voteType) ==
    /\ IF userId = "" \/ voteType = ""
       THEN /\ tLast' = [NoTimeoutCall EXCEPT !.op = "vote", !.status = 400]
            /\ UNCHANGED <<timeoutUsers, userVotes, suspensions, ballots, reached,
                           restoredSince, revotes, everRestored>>
       ELSE IF voteType \notin VoteTypes
       THEN /\ tLast' = [NoTimeoutCall EXCEPT !.op = "vote", !.userId = userId,
                                             !.status = 400]
            /\ UNCHANGED <<timeoutUsers, userVotes, suspensions, ballots, reached,
                           restoredSince, revotes, everRestored>>
       ELSE voteOnTimeoutUser(userId, voterId, voteType)
    /\ UNCHANGED <<tHours, flagging>>

\* flagUserForTimeout up to the await of generateTimeoutQuestion: a suspended
\* user is not flagged (null is returned).
FlagStart(userId) ==
    /\ flagging = ""
    /\ suspensions' = SuspensionsAfterCheck(userId)
    /\ IF isSuspended(userId)
       THEN /\ tLast' = [NoTimeoutCall EXCEPT !.op = "flag", !.userId = userId,
                                             !.action = "null",
                                             !.before = timeoutUsers[userId].status]
            /\ UNCHANGED flagging
       ELSE /\ flagging' = userId
            /\ tLast' = [NoTimeoutCall EXCEPT !.op = "flag", !.userId = userId,
                                             !.action = "awaiting",
                                             !.before = timeoutUsers[userId].status]
    /\ UNCHANGED <<timeoutUsers, userVotes, tHours, ballots, reached, restoredSince, revotes, everRestored>>

\* flagUserForTimeout after the question arrived (generateTimeoutQuestion never
\* throws): a fresh pending entry and fresh vote sets replace what was there.
FlagFinish ==
    /\ flagging # ""
    /\ timeoutUsers' = [timeoutUsers EXCEPT ![flagging] =
                           [NoEntry EXCEPT !.present = TRUE, !.status = "pending",
                                           !.reason = "Spam"]]
    /\ userVotes' = [userVotes EXCEPT ![flagging] = [NoVotes EXCEPT !.present = TRUE]]
    /\ flagging' = ""
    /\ ballots' = [v \in Voters |-> "none"]
    /\ reached' = FALSE
    /\ restoredSince' = FALSE
    /\ revotes' = 0
    /\ UNCHANGED everRestored
    /\ tLast' = [NoTimeoutCall EXCEPT !.op = "flagged", !.userId = flagging,
                                     !.action = "pending",
                                     !.before = timeoutUsers[flagging].status]
    /\ UNCHANGED <<suspensions, tHours>>

\* A repeat offence that is sent to a new community vote.
RepeatOffenderVotedAgain(userId) == FlagStart(userId)

\* handleRepeatOffender(userId, username, newViolation) for a user on probation
RepeatOffender(userId) ==
    /\ timeoutUsers' = [timeoutUsers EXCEPT ![userId] = suspendUser(@, TwoHours)]
    /\ suspensions' = [suspensions EXCEPT ![userId] = Now + TwoHours]
    /\ tLast' = [NoTimeoutCall EXCEPT !.op = "repeat", !.userId = userId,
                                     !.action = "suspended",
                                     !.before = timeoutUsers[userId].status]
    /\ UNCHANGED <<userVotes, tHours, flagging, ballots, reached, restoredSince, revotes, everRestored>>

\* One spam comment of processTimeoutFlags: skipped without an authorId, a
\* repeat offence for a user on probation, a flag otherwise.
NoAuthorId == ""
processTimeoutFlags(authorId) ==
    IF authorId = NoAuthorId
    THEN /\ tLast' = [NoTimeoutCall EXCEPT !.op = "skip"]
         /\ UNCHANGED <<timeoutUsers, userVotes, suspensions, tHours, flagging, ballots,
                        reached, restoredSince, revotes, everRestored>>
    ELSE IF isOnProbation(authorId)
    THEN RepeatOffender(authorId)
    ELSE FlagStart(authorId)

PaidOnly == "Voluntary timeout is for paid users only"
\* voluntaryTimeout(userId, username, topic, isPaidUser) through
\* app.post('/api/timeout/voluntary'): the entry is replaced, the vote sets are not.
voluntaryTimeout(userId, isPaidUser) ==
    /\ IF ~isPaidUser
       THEN /\ tLast' = [NoTimeoutCall EXCEPT !.op = "voluntary", !.userId = userId,
                                             !.status = 500, !.threw = PaidOnly]
            /\ UNCHANGED <<timeoutUsers, restoredSince>>
       ELSE /\ timeoutUsers' = [timeoutUsers EXCEPT ![userId] =
                                   [NoEntry EXCEPT !.present = TRUE, !.status = "voluntary",
                                                   !.reason = "voluntary",
                                                   !.votes = [engage |-> 0, skip |-> 0]]]
            /\ restoredSince' = FALSE
            /\ tLast' = [NoTimeoutCall EXCEPT !.op = "voluntary", !.userId = userId,
                                             !.status = 200,
                                             !.before = timeoutUsers[userId].status]
    /\ UNCHANGED <<userVotes, suspensions, tHours, flagging, ballots, reached, revotes,
                   everRestored>>

\* An hour passes.
TimePasses ==
    /\ tHours < MaxHours
    /\ tHours' = tHours + 1
    /\ tLast' = NoTimeoutCall
    /\ UNCHANGED <<timeoutUsers, userVotes, suspensions, flagging, ballots, reached,
                   restoredSince, revotes, everRestored>>

\* Requests the vote route refuses.
RefusedVotes ==
    {[userId |-> "", voteType |-> "keep"],
     [userId |-> "mallory", voteType |-> "maybe"]}

\* The community votes; users are flagged and enter voluntary timeouts.
NextTimeout ==
    \/ \E userId \in TimeoutUserIds : \E v \in VoteInputs(userId, Voters) :
          VoteRoute(userId, v.voterId, v.voteType)
    \/ \E bad \in RefusedVotes : VoteRoute(bad.userId, 1, bad.voteType)
    \/ \E authorId \in TimeoutUserIds \cup {NoAuthorId} : processTimeoutFlags(authorId)
    \/ FlagFinish
    \/ \E userId \in TimeoutUserIds, isPaidUser \in BOOLEAN : voluntaryTimeout(userId, isPaidUser)

\* A small jury votes while hours pass and spam comments are processed.
NextRepeat ==
    \/ \E userId \in TimeoutUserIds : \E v \in VoteInputs(userId, 1..MaxJury) :
          VoteRoute(userId, v.voterId, v.voteType)
    \/ \E authorId \in TimeoutUserIds \cup {NoAuthorId} : processTimeoutFlags(authorId)
    \/ FlagFinish
    \/ \E userId \in TimeoutUserIds : voluntaryTimeout(userId, TRUE)
    \/ TimePasses

\* ------------------------------------------------------------ RateLimiter (webapp/src/utils/security.ts)
VARIABLES
    timestamps,   \* Map: key -> times of the recorded attempts
    rlNow,        \* Date.now() in the browser
    rlSteps,      \* how often the clock has moved
    rlCalls,      \* how many isAllowed calls were made
    granted,      \* history: per key, the times at which isAllowed returned true
    rlLast        \* the latest isAllowed call: its key, its result, the Map before it

rateVars == <<timestamps, rlNow, rlSteps, rlCalls, granted, rlLast>>

MaxRlSteps == 2      \* clock movements in a run
MaxRlCalls == 7      \* isAllowed calls in a run

ForumyzeLimit == 5
PodcastLimit == 3
RateWindow == 60000

\* The keys the web app uses, with the limits it passes for each.
RateKeys == {"forumyze", "podcast"}
LimitOf(key) == IF key = "forumyze" THEN ForumyzeLimit ELSE PodcastLimit

NoRateCall == [key |-> "", allowed |-> FALSE, before |-> [k \in RateKeys |-> <<>>]]

InitRate ==
    /\ timestamps = [k \in RateKeys |-> <<>>]
    /\ rlNow = 0
    /\ rlSteps = 0
    /\ rlCalls = 0
    /\ granted = [k \in RateKeys |-> <<>>]
    /\ rlLast = NoRateCall

\* attempts.filter(time => now - time < windowMs)
RecentAttempts(attempts, now, windowMs) ==
    SelectSeq(attempts, LAMBDA time : now - time < windowMs)

\* A limit that lets one more attempt through.
LimitReachedLate(count, maxAttempts) == count > maxAttempts

\* recentAttempts.length >= maxAttempts
LimitReached(count, maxAttempts) == count >= maxAttempts

\* isAllowed(key, maxAttempts, windowMs)
isAllowed(key, maxAttempts, windowMs) ==
    LET recentAttempts == RecentAttempts(timestamps[key], rlNow, windowMs)
        allowed == ~LimitReached(Len(recentAttempts), maxAttempts)
    IN /\ rlCalls < MaxRlCalls
       /\ rlCalls' = rlCalls + 1
       /\ timestamps' = IF allowed
                        THEN [timestamps EXCEPT ![key] = Append(recentAttempts, rlNow)]
                        ELSE timestamps
       /\ granted' = IF allowed
                     THEN [granted EXCEPT ![key] = Append(@, rlNow)]
                     ELSE granted
       /\ rlLast' = [key |-> key, allowed |-> allowed, before |-> timestamps]
       /\ UNCHANGED <<rlNow, rlSteps>>

\* Time passes between two clicks: a millisecond, or one short of a minute.
RateClockSteps == {1, RateWindow - 1}
RateTimePasses(ms) ==
    /\ rlSteps < MaxRlSteps
    /\ rlSteps' = rlSteps + 1
    /\ rlNow' = rlNow + ms
    /\ rlLast' = NoRateCall
    /\ UNCHANGED <<timestamps, rlCalls, granted>>

\* handleForumyze and the podcast handler of app.tsx ask the limiter first.
NextRate ==
    \/ \E key \in RateKeys : isAllowed(key, LimitOf(key), RateWindow)
    \/ \E ms \in RateClockSteps : RateTimePasses(ms)

\* ------------------------------------------------------------ reply route with bot detection
VARIABLES
    hellNow,        \* Date.now() of the server that checks for bots
    hellTicks,      \* how often that clock has moved
    flaggedSince,   \* history: users found posting too fast and not unblocked since
    hellLast        \* the latest reply request: who sent it and what became of it

hellVars == <<hellNow, hellTicks, flaggedSince, hellLast>>

MaxHellUuid == 13    \* uuids drawn while replies are checked for bots
MaxHellTicks == 1    \* clock movements while replies are checked for bots

NoUserId == ""
HellUserIds == {"mallory"}
HellCategories == {"", "spam"}   \* category of the request body, or none
HellThreadIds == {"t1"}
NoHellReply ==
    [arrived |-> FALSE, userId |-> "", status |-> 0, wasFlagged |-> FALSE,
     category |-> "", replyId |-> ""]

InitHell ==
    /\ hellNow = 0
    /\ hellTicks = 0
    /\ flaggedSince = {}
    /\ hellLast = NoHellReply

\* isBotUser(userId)
isBotUser(userId) == userId \in botUsers

\* recordPost(userId, threadId) followed by detectBot(userId), both at Date.now():
\* the posting history and the flagged set they leave.
HistoryAfterPost(userId, threadId, now) ==
    LET history == Append(HistoryOf(userId), [timestamp |-> now, threadId |-> threadId])
        filtered == SelectSeq(history, LAMBDA entry : entry.timestamp > now - FiveMinutes)
    IN SelectSeq(filtered, LAMBDA entry : now - entry.timestamp < TIME_WINDOW)
FlaggedAfterPost(userId, threadId, now) ==
    IF isOverThreshold(Len(HistoryAfterPost(userId, threadId, now)))
    THEN botUsers \cup {userId}
    ELSE botUsers

\* The reply the route builds: for a flagged user category 'hell' and
\* inHell: true, otherwise category || 'genuine'.
HellReplyOfRequested(id, text, category, flagged) ==
    IF flagged
    THEN [id |-> id, author |-> "Anonymous", text |-> text,
          category |-> IF category = "" THEN "hell" ELSE category,
          inHell |-> TRUE, replies |-> <<>>]
    ELSE [id |-> id, author |-> "Anonymous", text |-> text,
          category |-> IF category = "" THEN "genuine" ELSE category, replies |-> <<>>]
HellReplyOf(id, text, category, flagged) ==
    IF flagged
    THEN [id |-> id, author |-> "Anonymous", text |-> text, category |-> "hell",
          inHell |-> TRUE, replies |-> <<>>]
    ELSE [id |-> id, author |-> "Anonymous", text |-> text,
          category |-> IF category = "" THEN "genuine" ELSE category, replies |-> <<>>]

\* A forum is saved, so that there is a thread to reply to.
HellSeed ==
    /\ load(dbFile).forums = <<>>
    /\ uuidCount < MaxHellUuid
    /\ uuidCount' = uuidCount + 1
    /\ clock' = clock + 1
    /\ dbFile' = save(create(load(dbFile),
                             [videoId |-> "dQw4w9WgXcQ",
                              forumData |-> [threads |-> <<T("t1", <<>>)>>]],
                             null, Uuid(uuidCount + 1), clock).data)
    /\ hellLast' = NoHellReply
    /\ UNCHANGED <<userPostingHistory, botUsers, hellNow, hellTicks, flaggedSince>>

\* app.post('/api/forum/:id/reply') of the server that imports botDetection
ReplyWithBotDetection(id, threadId, text, category, userId) ==
    /\ uuidCount < MaxHellUuid
    /\ IF threadId = "" \/ text = ""
       THEN /\ hellLast' = [NoHellReply EXCEPT !.arrived = TRUE, !.userId = userId,
                                              !.status = 400,
                                              !.wasFlagged = userId \in flaggedSince]
            /\ UNCHANGED <<dbFile, clock, uuidCount, userPostingHistory, botUsers,
                           flaggedSince>>
       ELSE LET flagged == isBotUser(userId)
                reply == HellReplyOf(Uuid(uuidCount + 1), text, category, flagged)
                data == load(dbFile)
                i == IndexById(data.forums, id)
            IN /\ uuidCount' = uuidCount + 1
               /\ IF flagged \/ userId = NoUserId
                  THEN UNCHANGED <<userPostingHistory, botUsers, flaggedSince>>
                  ELSE /\ userPostingHistory' =
                              SetHistory(userId, HistoryAfterPost(userId, threadId, hellNow))
                       /\ botUsers' = FlaggedAfterPost(userId, threadId, hellNow)
                       /\ flaggedSince' =
                              IF Len(HistoryAfterPost(userId, threadId, hellNow)) >= 10
                              THEN flaggedSince \cup {userId}
                              ELSE flaggedSince
               /\ IF i = 0
                  THEN /\ hellLast' = [NoHellReply EXCEPT
                                          !.arrived = TRUE, !.userId = userId,
                                          !.status = 404,
                                          !.wasFlagged = userId \in flaggedSince]
                       /\ UNCHANGED <<dbFile, clock>>
                  ELSE /\ clock' = clock + 1
                       /\ dbFile' = save(addReply(data, i, threadId, reply, clock))
                       /\ hellLast' = [NoHellReply EXCEPT
                                          !.arrived = TRUE, !.userId = userId,
                                          !.status = 200,
                                          !.wasFlagged = userId \in flaggedSince,
                                          !.category = category,
                                          !.replyId = reply.id]
    /\ UNCHANGED <<hellNow, hellTicks>>

\* unblockUser(userId)
unblockUser(userId) ==
    /\ userId \in botUsers
    /\ botUsers' = botUsers \ {userId}
    /\ userPostingHistory' =
          [u \in DOMAIN userPostingHistory \ {userId} |-> userPostingHistory[u]]
    /\ flaggedSince' = flaggedSince \ {userId}
    /\ hellLast' = NoHellReply
    /\ UNCHANGED <<dbFile, clock, uuidCount, hellNow, hellTicks>>

\* Half a minute passes.
HellTimePasses ==
    /\ hellTicks < MaxHellTicks
    /\ hellTicks' = hellTicks + 1
    /\ hellNow' = hellNow + TIME_WINDOW
    /\ hellLast' = NoHellReply
    /\ UNCHANGED <<dbFile, clock, uuidCount, userPostingHistory, botUsers, flaggedSince>>

\* Reply requests to a forum: the valid ones, one without a user, one without text.
HellRequests(id) ==
    [id : {id}, threadId : HellThreadIds, text : {"hi"}, category : HellCategories,
     userId : HellUserIds]
    \cup {[id |-> id, threadId |-> "t1", text |-> "hi", category |-> "", userId |-> NoUserId],
          [id |-> id, threadId |-> "t1", text |-> "", category |-> "", userId |-> "mallory"]}

\* The requests name the stored forum, or a forum that is not there while
\* none is stored. The category an earlier reply asked for changes nothing
\* but that reply's stored category, so a category is asked for only by a
\* user one post from the threshold or beyond it.
HellRequestsNow ==
    LET forums == load(dbFile).forums
    IN {r \in HellRequests(IF forums = <<>> THEN "gone" ELSE forums[1].id) :
           r.category = "" \/ Len(HistoryOf(r.userId)) >= POSTING_THRESHOLD - 1}

NextHell ==
    /\ \/ HellSeed
       \/ \E r \in HellRequestsNow :
             ReplyWithBotDetection(r.id, r.threadId, r.text, r.category, r.userId)
       \/ \E userId \in HellUserIds : unblockUser(userId)
       \/ HellTimePasses
    /\ UNCHANGED <<pc, req, snap, last, submitted, touched, issued,
                   botCheck, recorded, lastTime, inOrder>>

\* ------------------------------------------------------------ the forumyze cache
VARIABLES
    cacheLast,       \* the latest response of POST /api/forumyze
    cachedAnswers,   \* history: how many responses carried cached: true
    serviceCalls,    \* history: how often forumyzeService was invoked
    cacheRequests    \* history: how many POST /api/forumyze requests arrived

cacheVars == <<cacheLast, cachedAnswers, serviceCalls, cacheRequests>>

MaxCacheRequests == 3   \* POST /api/forumyze requests in a run

CacheVideoIds == {"dQw4w9WgXcQ"}
CacheForumData == [threads |-> <<T("t1", <<>>)>>]
NoCacheResponse ==
    [proc |-> 0, status |-> 0, cached |-> FALSE, forumData |-> NotAnObject,
     timesAccessed |-> 0, existed |-> FALSE, service |-> FALSE]

InitCache ==
    /\ cacheLast = NoCacheResponse
    /\ cachedAnswers = 0
    /\ serviceCalls = 0
    /\ cacheRequests = 0

\* ForumModel.create of the model with access counters: the data it saves.
createCounted(data, forumData, userId, id, now) ==
    [data EXCEPT !.forums =
        Append(@, [id |-> id,
                   videoId |-> forumData.videoId,
                   forumData |-> forumData.forumData,
                   forumyzedAt |-> now,
                   createdAt |-> now,
                   updatedAt |-> now,
                   userId |-> userId,
                   isPublic |-> TRUE,
                   shareToken |-> null,
                   timesAccessed |-> 0])]

\* data.forums.find(f => f.videoId === videoId), as an index (0: none)
IndexByVideoId(forums, videoId) ==
    IF \E i \in 1..Len(forums) : forums[i].videoId = videoId
    THEN CHOOSE i \in 1..Len(forums) :
            /\ forums[i].videoId = videoId
            /\ \A j \in 1..(i - 1) : forums[j].videoId # videoId
    ELSE 0

\* (existing.timesAccessed || 0) + 1
AccessedOnce(forum) ==
    IF "timesAccessed" \in DOMAIN forum THEN forum.timesAccessed + 1 ELSE 1

\* ForumModel.findByVideoId after db.load(): the data it saves, with the
\* access counter of the forum at index i grown by one.
findByVideoId(data, i, now) ==
    [data EXCEPT !.forums[i] =
        [k \in DOMAIN @ \cup {"timesAccessed", "lastAccessedAt"} |->
            CASE k = "timesAccessed" -> AccessedOnce(data.forums[i])
              [] k = "lastAccessedAt" -> now
              [] OTHER -> data.forums[i][k]]]

\* app.post('/api/forum/save') of the server with the cache, up to db.load()
CacheSaveStart(p, videoId) ==
    /\ pc[p] = "idle"
    /\ UuidLeft
    /\ Await(p, [NoRequest EXCEPT !.route = "save", !.videoId = videoId,
                                  !.forumData = CacheForumData])
    /\ UNCHANGED <<uuidCount, cacheVars>>

\* ForumModel.create after db.load(), and the response
CacheSaveFinish(p, writeOk) ==
    /\ pc[p] = "loaded" /\ req[p].route = "save"
    /\ uuidCount' = uuidCount + 1
    /\ clock' = clock + 1
    /\ dbFile' = IF writeOk
                 THEN save(createCounted(snap[p], req[p], null, Uuid(uuidCount + 1), clock))
                 ELSE dbFile
    /\ Release(p)
    /\ cacheLast' = NoCacheResponse
    /\ UNCHANGED <<last, submitted, touched, issued, cachedAnswers, serviceCalls,
                   cacheRequests>>

\* app.post('/api/forumyze') up to db.load() in ForumModel.findByVideoId
ForumyzeStart(p, videoId) ==
    /\ pc[p] = "idle"
    /\ cacheRequests < MaxCacheRequests
    /\ cacheRequests' = cacheRequests + 1
    /\ Await(p, [NoRequest EXCEPT !.route = "forumyze", !.videoId = videoId])
    /\ UNCHANGED <<uuidCount, cacheLast, cachedAnswers, serviceCalls>>

\* ForumModel.findByVideoId after db.load(), then the cached response or
\* forumyzeService; serviceOk is whether forumyzeService returned.
ForumyzeFinish(p, writeOk, serviceOk) ==
    /\ pc[p] = "loaded" /\ req[p].route = "forumyze"
    /\ LET data == snap[p]
           i == IndexByVideoId(data.forums, req[p].videoId)
           found == findByVideoId(data, i, clock)
       IN IF i # 0
          THEN /\ clock' = clock + 1
               /\ IF writeOk
                  THEN /\ dbFile' = save(found)
                       /\ cachedAnswers' = cachedAnswers + 1
                       /\ cacheLast' =
                             [proc |-> p, status |-> 200, cached |-> TRUE,
                              forumData |-> found.forums[i].forumData,
                              timesAccessed |-> found.forums[i].timesAccessed,
                              existed |-> TRUE, service |-> FALSE]
                  ELSE /\ cacheLast' = [NoCacheResponse EXCEPT
                                           !.proc = p, !.status = 500, !.existed = TRUE]
                       /\ UNCHANGED <<dbFile, cachedAnswers>>
               /\ UNCHANGED serviceCalls
          ELSE /\ serviceCalls' = serviceCalls + 1
               /\ cacheLast' = [NoCacheResponse EXCEPT
                                   !.proc = p, !.service = TRUE,
                                   !.status = IF serviceOk THEN 200 ELSE 500]
               /\ UNCHANGED <<dbFile, clock, cachedAnswers>>
    /\ Release(p)
    /\ UNCHANGED <<uuidCount, last, submitted, touched, issued, cacheRequests>>

NextCache ==
    \E p \in Procs :
        \/ \E videoId \in CacheVideoIds : CacheSaveStart(p, videoId)
        \/ \E writeOk \in BOOLEAN : CacheSaveFinish(p, writeOk)
        \/ \E videoId \in CacheVideoIds : ForumyzeStart(p, videoId)
        \/ \E writeOk, serviceOk \in BOOLEAN : ForumyzeFinish(p, writeOk, serviceOk)

\* ------------------------------------------------------------ fetchAllComments
VARIABLES
    fetchPc,          \* where the fetchAllComments call stands
    nextPageToken,    \* its variable nextPageToken
    pageCount,        \* its variable pageCount
    allComments,      \* its variable allComments
    fetchResult,      \* what the call returned
    fetchRequests,    \* history: axios.get calls made
    fetchFailed       \* history: the catch block ran

fetchVars ==
    <<fetchPc, nextPageToken, pageCount, allComments, fetchResult, fetchRequests,
      fetchFailed>>

maxPages == 50

NoToken == ""                 \* null, undefined or an empty nextPageToken
PageTokens == {NoToken, "next"}
NotReturned == [returned |-> FALSE, comments |-> <<>>]

InitFetch ==
    /\ fetchPc = "idle"
    /\ nextPageToken = NoToken
    /\ pageCount = 0
    /\ allComments = <<>>
    /\ fetchResult = NotReturned
    /\ fetchRequests = 0
    /\ fetchFailed = FALSE

\* response.data.items of the k-th page the API serves: no thread, a thread
\* without replies, or a thread with one reply.
PageItems(k) ==
    CASE k % 3 = 0 -> <<>>
      [] k % 3 = 1 -> <<[id |-> k, replies |-> <<>>]>>
      [] OTHER -> <<[id |-> k, replies |-> <<k + 100>>]>>

\* The comment pushed for one item: the top-level comment with its replies.
CommentOf(item) ==
    [id |-> item.id,
     replies |-> [r \in 1..Len(item.replies) |->
                     [id |-> item.replies[r], isReply |-> TRUE, parentId |-> item.id]]]
CommentsOfItems(items) == [i \in 1..Len(items) |-> CommentOf(items[i])]

\* while (nextPageToken && pageCount < maxPages)
LoopContinuesOnePageMore(token, count) == token # NoToken /\ count <= maxPages
LoopContinues(token, count) == token # NoToken /\ count < maxPages

\* fetchAllComments(videoId, apiKey) is called.
FetchCall ==
    /\ fetchPc = "idle"
    /\ fetchPc' = "loop"
    /\ UNCHANGED <<nextPageToken, pageCount, allComments, fetchResult, fetchRequests,
                   fetchFailed>>

\* The loop body up to await axios.get(url, { params }).
FetchRequest ==
    /\ fetchPc = "loop"
    /\ fetchPc' = "requested"
    /\ fetchRequests' = fetchRequests + 1
    /\ UNCHANGED <<nextPageToken, pageCount, allComments, fetchResult, fetchFailed>>

\* The request resolves with a page: its comments are pushed, the token and
\* the page count are updated, and the call waits 100 ms.
FetchPage(token) ==
    /\ fetchPc = "requested"
    /\ allComments' = allComments \o CommentsOfItems(PageItems(pageCount + 1))
    /\ nextPageToken' = token
    /\ pageCount' = pageCount + 1
    /\ fetchPc' = "waiting"
    /\ UNCHANGED <<fetchResult, fetchRequests, fetchFailed>>

\* The request rejects: the catch block logs and breaks, and the call
\* returns allComments.
FetchError ==
    /\ fetchPc = "requested"
    /\ fetchFailed' = TRUE
    /\ fetchPc' = "done"
    /\ fetchResult' = [returned |-> TRUE, comments |-> allComments]
    /\ UNCHANGED <<nextPageToken, pageCount, allComments, fetchRequests>>

\* The 100 ms are over: the loop condition decides.
FetchWaited ==
    /\ fetchPc = "waiting"
    /\ IF LoopContinues(nextPageToken, pageCount)
       THEN /\ fetchPc' = "loop"
            /\ UNCHANGED fetchResult
       ELSE /\ fetchPc' = "done"
            /\ fetchResult' = [returned |-> TRUE, comments |-> allComments]
    /\ UNCHANGED <<nextPageToken, pageCount, allComments, fetchRequests, fetchFailed>>

NextFetch ==
    \/ FetchCall
    \/ FetchRequest
    \/ \E token \in PageTokens : FetchPage(token)
    \/ FetchError
    \/ FetchWaited

\* ------------------------------------------------------------ extension service worker
VARIABLES
    extPc,         \* per message: where its forumizeVideo handler stands
    extMsg,        \* per message: the request
    extForumData,  \* per message: what POST /api/forumize returned
    extStorage,    \* chrome.storage.local: the stored forumData
    extResponses,  \* per message: the arguments sendResponse was called with
    extSteps       \* history, per message: the steps its handler took

extVars == <<extPc, extMsg, extForumData, extStorage, extResponses, extSteps>>

ExtMessages == {1, 2}         \* messages whose handlers may be in flight together
ExtPlatforms == {"", "tiktok"}
NoExtMsg == [videoId |-> "", platform |-> ""]
NoForumData == [platform |-> "", threads |-> <<>>]
NothingStored == [id |-> "", videoId |-> "", platform |-> "", threads |-> <<>>]
ExtThreads == <<T("t1", <<>>)>>

\* What a backend call can come to once the token is there: the parsed body,
\* a rejected fetch, a status that is not ok, or a body that is not JSON.
FetchOutcomes == {"ok", "rejected", "http", "nojson"}
TokenError == "The user did not approve access."
ErrorOf(outcome) ==
    CASE outcome = "rejected" -> "Failed to fetch"
      [] outcome = "http" -> "HTTP 500"
      [] OTHER -> "Unexpected token < in JSON at position 0"

\* The platform the backend names in its answer, if it names one.
ForumDataFor(platform, named) ==
    [platform |-> IF named THEN "youtube" ELSE "", threads |-> ExtThreads]
SavedId(m) == "f" \o ToString(m)

InitExt ==
    /\ extPc = [m \in ExtMessages |-> "idle"]
    /\ extMsg = [m \in ExtMessages |-> NoExtMsg]
    /\ extForumData = [m \in ExtMessages |-> NoForumData]
    /\ extStorage = NothingStored
    /\ extResponses = [m \in ExtMessages |-> <<>>]
    /\ extSteps = [m \in ExtMessages |-> <<>>]

\* catch (error) { sendResponse({ error: error.message }) }
ExtCatch(m, message) ==
    /\ extPc' = [extPc EXCEPT ![m] = "done"]
    /\ extResponses' = [extResponses EXCEPT ![m] = Append(@, [error |-> message])]
    /\ extSteps' = [extSteps EXCEPT ![m] = Append(@, "response")]

\* The listener is called with a forumizeVideo request; callBackend awaits
\* getAuthToken(true).
ExtReceive(m, platform) ==
    /\ extPc[m] = "idle"
    /\ extMsg' = [extMsg EXCEPT ![m] = [videoId |-> "dQw4w9WgXcQ", platform |-> platform]]
    /\ extPc' = [extPc EXCEPT ![m] = "forumizeToken"]
    /\ UNCHANGED <<extForumData, extStorage, extResponses, extSteps>>

\* getAuthToken settles for the call at `at`; with a token fetch is sent.
ExtToken(m, at, hasToken) ==
    /\ extPc[m] = at \o "Token"
    /\ IF hasToken
       THEN /\ extPc' = [extPc EXCEPT ![m] = at \o "Fetch"]
            /\ extSteps' = [extSteps EXCEPT ![m] = Append(@, at)]
            /\ UNCHANGED extResponses
       ELSE ExtCatch(m, TokenError)
    /\ UNCHANGED <<extMsg, extForumData, extStorage>>

\* Step 1: POST /api/forumize settles; on success callBackend for step 2 starts.
ExtForumized(m, outcome, named) ==
    /\ extPc[m] = "forumizeFetch"
    /\ IF outcome = "ok"
       THEN /\ extForumData' =
                  [extForumData EXCEPT ![m] = ForumDataFor(extMsg[m].platform, named)]
            /\ extPc' = [extPc EXCEPT ![m] = "saveToken"]
            /\ UNCHANGED <<extResponses, extSteps>>
       ELSE /\ ExtCatch(m, ErrorOf(outcome))
            /\ UNCHANGED extForumData
    /\ UNCHANGED <<extMsg, extStorage>>

\* forumData.platform || platform || 'youtube'
PlatformOf(forumData, platform) ==
    IF forumData.platform # "" THEN forumData.platform
    ELSE IF platform # "" THEN platform
    ELSE "youtube"

\* chrome.storage.local after step 2 settled: set only when the call returned.
StorageWrittenAnyway(storage, returned, stored) == stored
StorageAfterSave(storage, returned, stored) == IF returned THEN stored ELSE storage

\* Step 2: POST /api/forum/save settles; on success step 3 writes
\* chrome.storage.local and the response is sent.
ExtSaved(m, outcome) ==
    /\ extPc[m] = "saveFetch"
    /\ LET stored == [id |-> SavedId(m),
                      videoId |-> extMsg[m].videoId,
                      platform |-> PlatformOf(extForumData[m], extMsg[m].platform),
                      threads |-> extForumData[m].threads]
       IN extStorage' = StorageAfterSave(extStorage, outcome = "ok", stored)
    /\ IF outcome = "ok"
       THEN /\ extPc' = [extPc EXCEPT ![m] = "done"]
            /\ extResponses' =
                  [extResponses EXCEPT ![m] =
                      Append(@, [data |-> extForumData[m], forumId |-> SavedId(m)])]
            /\ extSteps' = [extSteps EXCEPT ![m] = @ \o <<"storage", "response">>]
       ELSE ExtCatch(m, ErrorOf(outcome))
    /\ UNCHANGED <<extMsg, extForumData>>

NextExt ==
    \E m \in ExtMessages :
        \/ \E platform \in ExtPlatforms : ExtReceive(m, platform)
        \/ \E at \in {"forumize", "save"}, hasToken \in BOOLEAN : ExtToken(m, at, hasToken)
        \/ \E outcome \in FetchOutcomes, named \in BOOLEAN : ExtForumized(m, outcome, named)
        \/ \E outcome \in FetchOutcomes : ExtSaved(m, outcome)

\* ------------------------------------------------------------ web app: live polling
VARIABLES
    isLive,              \* React state isLive
    messageBoardId,      \* React state messageBoardId
    livePollingInterval, \* livePollingInterval.current: a timer id, or NoTimer
    activeTimers,        \* the interval timers the browser still runs
    timerCount,          \* setInterval calls so far
    pollsInFlight,       \* poll requests sent and not yet answered
    pollsSent,           \* history: poll requests sent so far
    sentSinceEnded,      \* history: poll requests sent since the stream was seen ended
    endedSince,          \* history: a poll saw isLive false, no startLivePolling since
    hPc,                 \* where the handleForumyzeVideo call stands
    hBoardId,            \* messageBoardId as the running call's closure holds it
    hLiveStatus,         \* liveStatus of the running call
    liveLast             \* the latest finished step that matters to polling

liveVars ==
    <<isLive, messageBoardId, livePollingInterval, activeTimers, timerCount,
      pollsInFlight, pollsSent, sentSinceEnded, endedSince, hPc, hBoardId, hLiveStatus,
      liveLast>>

MaxTimers == 3     \* setInterval calls in a run
MaxPolls == 5      \* poll requests in a run

NoTimer == 0
NoBoardId == "null"
BoardIds == {"b1"}
NoLiveStep ==
    [op |-> "none", live |-> FALSE, boardLoaded |-> FALSE, knownBefore |-> FALSE,
     polling |-> FALSE]

InitLive ==
    /\ isLive = FALSE
    /\ messageBoardId = NoBoardId
    /\ livePollingInterval = NoTimer
    /\ activeTimers = {}
    /\ timerCount = 0
    /\ pollsInFlight = 0
    /\ pollsSent = 0
    /\ sentSinceEnded = 0
    /\ endedSince = FALSE
    /\ hPc = "idle"
    /\ hBoardId = NoBoardId
    /\ hLiveStatus = FALSE
    /\ liveLast = NoLiveStep

\* pollLiveChat up to its await fetch: one more request is on its way.
PollSent ==
    /\ pollsInFlight' = pollsInFlight + 1
    /\ pollsSent' = pollsSent + 1

\* startLivePolling(selectedVideoId, boardId): the old timer is cleared, the
\* initial poll is sent and a new timer is set.
startLivePolling ==
    /\ timerCount < MaxTimers /\ pollsSent < MaxPolls
    /\ PollSent
    /\ timerCount' = timerCount + 1
    /\ livePollingInterval' = timerCount + 1
    /\ activeTimers' = (activeTimers \ {livePollingInterval}) \cup {timerCount + 1}
    /\ endedSince' = FALSE
    /\ sentSinceEnded' = 0

NoPollingStarted ==
    UNCHANGED <<livePollingInterval, activeTimers, timerCount, pollsInFlight, pollsSent,
                sentSinceEnded, endedSince>>

\* handleForumyzeVideo up to await checkLiveStatus(selectedVideoId); the call
\* runs with the messageBoardId of the render it was created in.
HandleStart ==
    /\ hPc = "idle"
    /\ hPc' = "checking"
    /\ hBoardId' = messageBoardId
    /\ liveLast' = NoLiveStep
    /\ NoPollingStarted
    /\ UNCHANGED <<isLive, messageBoardId, hLiveStatus>>

\* checkLiveStatus answered (false also when it failed): setIsLive(liveStatus),
\* then await loadMessageBoard(selectedVideoId).
HandleChecked(liveStatus) ==
    /\ hPc = "checking"
    /\ hPc' = "loading"
    /\ hLiveStatus' = liveStatus
    /\ isLive' = liveStatus
    /\ liveLast' = NoLiveStep
    /\ NoPollingStarted
    /\ UNCHANGED <<messageBoardId, hBoardId>>

\* if (liveStatus && messageBoardId)
PollsExistingBoard(liveStatus, closureBoardId, stateBoardId) ==
    liveStatus /\ closureBoardId # NoBoardId

\* loadMessageBoard answered: "threads" a board with threads, "empty" a board
\* without, "none" no board (404 or a failed request). A board sets
\* messageBoardId; a board with threads is shown and, if the video is live and
\* a board id is known, polled; otherwise the video is analyzed.
HandleLoaded(board, boardId) ==
    /\ hPc = "loading"
    /\ messageBoardId' = IF board = "none" THEN messageBoardId ELSE boardId
    /\ IF board = "threads"
       THEN /\ hPc' = "idle"
            /\ IF PollsExistingBoard(hLiveStatus, hBoardId, messageBoardId')
               THEN startLivePolling
               ELSE NoPollingStarted
            /\ liveLast' = [op |-> "loaded", live |-> hLiveStatus, boardLoaded |-> TRUE,
                            knownBefore |-> hBoardId # NoBoardId,
                            polling |-> PollsExistingBoard(hLiveStatus, hBoardId,
                                                           messageBoardId')]
       ELSE /\ hPc' = "analyzing"
            /\ NoPollingStarted
            /\ liveLast' = NoLiveStep
    /\ UNCHANGED <<isLive, hBoardId, hLiveStatus>>

\* analyzeVideo answered with a result carrying boardId (NoBoardId: no result,
\* no board id, or it threw).
HandleAnalyzed(boardId) ==
    /\ hPc = "analyzing"
    /\ hPc' = "idle"
    /\ IF hLiveStatus /\ boardId # NoBoardId
       THEN /\ messageBoardId' = boardId
            /\ startLivePolling
       ELSE /\ NoPollingStarted
            /\ UNCHANGED messageBoardId
    /\ liveLast' = [op |-> "analyzed", live |-> hLiveStatus, boardLoaded |-> FALSE,
                    knownBefore |-> hBoardId # NoBoardId,
                    polling |-> hLiveStatus /\ boardId # NoBoardId]
    /\ UNCHANGED <<isLive, hBoardId, hLiveStatus>>

\* The interval timer fires: pollLiveChat sends a request.
TimerFires ==
    /\ activeTimers # {}
    /\ pollsSent < MaxPolls
    /\ PollSent
    /\ sentSinceEnded' = IF endedSince THEN sentSinceEnded + 1 ELSE sentSinceEnded
    /\ liveLast' = NoLiveStep
    /\ UNCHANGED <<isLive, messageBoardId, livePollingInterval, activeTimers, timerCount,
                   endedSince, hPc, hBoardId, hLiveStatus>>

\* A poll is answered: "live" with isLive true, "ended" with isLive false;
\* "failed" is a response that is not ok or a rejected fetch.
PollAnswers == {"live", "ended", "failed"}
TimersAfterEndedKept(timers, current) == timers
TimersAfterEnded(timers, current) == timers \ {current}
PollAnswered(answer) ==
    /\ pollsInFlight > 0
    /\ pollsInFlight' = pollsInFlight - 1
    /\ IF answer = "ended"
       THEN /\ isLive' = FALSE
            /\ activeTimers' = TimersAfterEnded(activeTimers, livePollingInterval)
            /\ livePollingInterval' = NoTimer
            /\ endedSince' = TRUE
            /\ sentSinceEnded' = 0
       ELSE UNCHANGED <<isLive, activeTimers, livePollingInterval, endedSince,
                        sentSinceEnded>>
    /\ liveLast' = [NoLiveStep EXCEPT !.op = answer]
    /\ UNCHANGED <<messageBoardId, timerCount, pollsSent, hPc, hBoardId, hLiveStatus>>

\* handleSignOut
handleSignOut ==
    /\ isLive' = FALSE
    /\ messageBoardId' = NoBoardId
    /\ activeTimers' = activeTimers \ {livePollingInterval}
    /\ livePollingInterval' = NoTimer
    /\ liveLast' = [NoLiveStep EXCEPT !.op = "signout"]
    /\ UNCHANGED <<timerCount, pollsInFlight, pollsSent, sentSinceEnded, endedSince, hPc,
                   hBoardId, hLiveStatus>>

NextLive ==
    \/ HandleStart
    \/ \E liveStatus \in BOOLEAN : HandleChecked(liveStatus)
    \/ \E board \in {"threads", "empty", "none"}, boardId \in BoardIds :
          HandleLoaded(board, boardId)
    \/ \E boardId \in BoardIds \cup {NoBoardId} : HandleAnalyzed(boardId)
    \/ TimerFires
    \/ \E answer \in PollAnswers : PollAnswered(answer)
    \/ handleSignOut

\* ------------------------------------------------------------ forumize: statistics
VARIABLES
    statThreads,    \* the threads fetched for the video: comments with flat replies
    statResult      \* what forumize returned for them, if it has run

statVars == <<statThreads, statResult>>

MaxStatComments == 4    \* comments and replies fetched for one video

defaultCategories == <<"spam", "bot", "toxic", "genuine", "question">>
Categories == {defaultCategories[i] : i \in 1..Len(defaultCategories)}

\* Comment texts, one for each rule of the classifier and one that meets none.
StatTexts ==
    {<<"S", "u", "b", "s", "c", "r", "i", "b", "e">>,
     <<"A", "u", "t", "o", "m", "a", "t", "e", "d">>,
     <<"S", "t", "u", "p", "i", "d">>,
     <<"w", "h", "y", "?">>,
     <<"n", "i", "c", "e">>}

NoStats == [done |-> FALSE, threads |-> <<>>,
            stats |-> [totalComments |-> 0, count |-> <<>>, percentage |-> <<>>]]

InitStats ==
    /\ statThreads = <<>>
    /\ statResult = NoStats

\* The number of comments and replies fetched.
Fetched(threads) ==
    LET RECURSIVE sum(_)
        sum(i) == IF i = 0 THEN 0 ELSE sum(i - 1) + 1 + Len(threads[i].replies)
    IN sum(Len(threads))

\* One more item of the API response: a thread, or a reply in the latest thread.
StatThread(text) ==
    /\ Fetched(statThreads) < MaxStatComments
    /\ statThreads' = Append(statThreads,
                             [id |-> "c", author |-> "ann", text |-> text, replies |-> <<>>])
    /\ statResult' = NoStats

StatReply(text) ==
    /\ Fetched(statThreads) < MaxStatComments
    /\ statThreads # <<>>
    /\ statThreads' =
          [statThreads EXCEPT ![Len(statThreads)].replies =
              Append(@, [id |-> "r", author |-> "bob", text |-> text, replies |-> <<>>])]
    /\ statResult' = NoStats

\* classifyComments(threads), then classifyComments on each thread's replies
ClassifiedThreads(threads) ==
    LET top == classifyComments(threads)
    IN [i \in 1..Len(top) |->
           IF HasReplies(top[i]) /\ Len(top[i].replies) > 0
           THEN [top[i] EXCEPT !.replies = classifyComments(@)]
           ELSE top[i]]

\* countComments(comments): every comment adds one to totalComments and to the
\* count of its category, then its replies are counted.
RECURSIVE CountTopLevelOnly(_, _)
CountTopLevelOnly(stats, list) ==
    IF list = <<>> THEN stats
    ELSE CountTopLevelOnly(
             [stats EXCEPT !.totalComments = @ + 1, !.count[Head(list).category] = @ + 1],
             Tail(list))
RECURSIVE countComments(_, _)
countComments(stats, list) ==
    IF list = <<>> THEN stats
    ELSE LET comment == Head(list)
             counted == [stats EXCEPT !.totalComments = @ + 1,
                                      !.count[comment.category] = @ + 1]
             deep == IF HasReplies(comment) /\ Len(comment.replies) > 0
                     THEN countComments(counted, comment.replies)
                     ELSE counted
         IN countComments(deep, Tail(list))

\* Math.round(x / y * 100) for a count x and a total y > 0
Percent(x, y) == (200 * x + y) \div (2 * y)

\* The stats object forumize builds for the classified threads.
StatsOf(classifiedThreads) ==
    LET zero == [totalComments |-> 0, count |-> [cat \in Categories |-> 0],
                 percentage |-> [cat \in Categories |-> 0]]
        counted == countComments(zero, classifiedThreads)
    IN [counted EXCEPT !.percentage =
           [cat \in Categories |->
               IF counted.totalComments > 0
               THEN Percent(counted.count[cat], counted.totalComments)
               ELSE 0]]

\* forumize(videoId) after the threads were fetched
StatForumize ==
    /\ ~statResult.done
    /\ statResult' = [done |-> TRUE, threads |-> ClassifiedThreads(statThreads),
                      stats |-> StatsOf(ClassifiedThreads(statThreads))]
    /\ UNCHANGED statThreads

NextStats ==
    \/ \E text \in StatTexts : StatThread(text)
    \/ \E text \in StatTexts : StatReply(text)
    \/ StatForumize

\* ------------------------------------------------------------ specifications
\* The variables of the parts added after the forum, bot, classifier and AI parts.
moreVars == <<dbVars, timeoutVars, rateVars, hellVars, cacheVars, fetchVars, extVars, liveVars, statVars>>
InitMore ==
    /\ InitDb /\ InitTimeout /\ InitRate /\ InitHell /\ InitCache /\ InitFetch /\ InitExt
    /\ InitLive /\ InitStats

vars == <<forumVars, botVars, classifyVars, aiVars, moreVars>>

Init == InitForum /\ InitBot /\ InitClassifyIdle /\ InitAiIdle /\ InitMore

\* Requests arrive one after the other.
Next == (\E p \in OneAtATime : Handle(p)) /\ UNCHANGED <<botVars, classifyVars, aiVars, moreVars>>
Spec == Init /\ [][Next]_vars

\* Saving a forum and replying, with requests that pass validation.
HandleWrite(p) ==
    \/ \E r \in [videoId : VideoIds, doc : ForumDataDocs, userId : {null}] :
          SaveStart(p, r.videoId, r.doc, r.userId)
    \/ \E writeOk \in BOOLEAN : SaveFinish(p, writeOk)
    \/ \E r \in [id : ForumIdInputs, threadId : ThreadIdInputs \ {""}, text : {"a<b"},
                  category : {"spam"}] :
          ReplyStart(p, r.id, r.threadId, r.text, r.category)
    \/ \E writeOk \in BOOLEAN : ReplyFinish(p, writeOk)

\* Up to two requests are in flight; their awaits interleave.
NextRace == (\E p \in Procs : HandleWrite(p)) /\ UNCHANGED <<botVars, classifyVars, aiVars, moreVars>>
SpecRace == Init /\ [][NextRace]_vars

\* The bot-detection service on its own.
SpecBot == Init /\ [][NextBot /\ UNCHANGED <<forumVars, classifyVars, aiVars, moreVars>>]_vars

\* The keyword classifier applied to every short list of the mock comments.
InitWithComments == InitForum /\ InitBot /\ InitClassify /\ InitAiIdle /\ InitMore
NextClassify == Classify /\ UNCHANGED <<forumVars, botVars, aiVars, moreVars>>
SpecClassify == InitWithComments /\ [][NextClassify]_vars

\* The Gemini categorizer applied to short comment lists under every outcome of the call.
InitWithAiCall == InitForum /\ InitBot /\ InitClassifyIdle /\ InitAi /\ InitMore
NextAi == Categorize /\ UNCHANGED <<forumVars, botVars, classifyVars, moreVars>>
SpecAi == InitWithAiCall /\ [][NextAi]_vars


\* The JSON store on its own: saves that complete or fail, a deleted file, loads.
SpecDb == Init /\ [][NextDb /\ UNCHANGED <<botVars, classifyVars, aiVars, timeoutVars, rateVars, hellVars, cacheVars, fetchVars, extVars, liveVars, statVars>>]_vars

\* The timeout system: flags, votes, voluntary timeouts and the clock.
SpecTimeout ==
    Init /\ [][NextTimeout /\ UNCHANGED <<forumVars, botVars, classifyVars, aiVars, dbVars, rateVars, hellVars, cacheVars, fetchVars, extVars, liveVars, statVars>>]_vars

\* Restored users who spam again, with the clock running.
SpecRepeat ==
    Init /\ [][NextRepeat /\ UNCHANGED <<forumVars, botVars, classifyVars, aiVars, dbVars, rateVars, hellVars, cacheVars, fetchVars, extVars, liveVars, statVars>>]_vars

\* The browser's rate limiter: clicks on the two limited actions while time passes.
SpecRate ==
    Init /\ [][NextRate /\ UNCHANGED <<forumVars, botVars, classifyVars, aiVars, dbVars,
                                       timeoutVars, hellVars, cacheVars, fetchVars, extVars, liveVars, statVars>>]_vars

\* Replies through the server that checks for bots, with unblocking and time.
SpecHell ==
    Init /\ [][NextHell /\ UNCHANGED <<classifyVars, aiVars, dbVars, timeoutVars,
                                       rateVars, cacheVars, fetchVars, extVars, liveVars, statVars>>]_vars

\* The server that answers from the cache, with two requests in flight.
SpecCache ==
    Init /\ [][NextCache /\ UNCHANGED <<botVars, classifyVars, aiVars, dbVars, timeoutVars,
                                        rateVars, hellVars, fetchVars, extVars, liveVars, statVars>>]_vars

\* One fetchAllComments call; the event loop runs every continuation that is
\* ready, and a request resolves or rejects.
NextFetchAll ==
    NextFetch /\ UNCHANGED <<forumVars, botVars, classifyVars, aiVars, dbVars, timeoutVars,
                             rateVars, hellVars, cacheVars, extVars, liveVars, statVars>>
SpecFetch == Init /\ [][NextFetchAll]_vars /\ WF_vars(NextFetchAll)

\* The extension's service worker handling forumizeVideo messages.
NextExtAll ==
    NextExt /\ UNCHANGED <<forumVars, botVars, classifyVars, aiVars, dbVars, timeoutVars,
                           rateVars, hellVars, cacheVars, fetchVars, liveVars, statVars>>
SpecExt == Init /\ [][NextExtAll]_vars

\* The web app's live polling: one handleForumyzeVideo call at a time, the
\* interval timer, polls in flight and sign-out.
NextLiveAll ==
    NextLive /\ UNCHANGED <<forumVars, botVars, classifyVars, aiVars, dbVars, timeoutVars,
                            rateVars, hellVars, cacheVars, fetchVars, extVars, statVars>>
SpecLive == Init /\ [][NextLiveAll]_vars

\* forumize on the threads of one video, fetched item by item.
NextStatsAll ==
    NextStats /\ UNCHANGED <<forumVars, botVars, classifyVars, aiVars, dbVars, timeoutVars,
                             rateVars, hellVars, cacheVars, fetchVars, extVars, liveVars>>
SpecStats == Init /\ [][NextStatsAll]_vars
\* ================================================================ claims
\* ---- helpers of the statements (not part of the program)
RECURSIVE AllThreadIds(_)
AllThreadIds(threads) ==
    IF threads = <<>> THEN {}
    ELSE LET t == Head(threads)
         IN {t.id} \cup (IF HasReplies(t) THEN AllThreadIds(t.replies) ELSE {})
                   \cup AllThreadIds(Tail(threads))

\* The positions of a thread tree in depth-first pre-order; a position is the
\* sequence of indices leading to it.
RECURSIVE PreorderPaths(_)
PreorderPaths(threads) ==
    LET Below(i) ==
            IF HasReplies(threads[i])
            THEN LET sub == PreorderPaths(threads[i].replies)
                 IN [k \in 1..Len(sub) |-> <<i>> \o sub[k]]
            ELSE <<>>
        RECURSIVE From(_)
        From(i) == IF i > Len(threads) THEN <<>>
                   ELSE <<(<<i>>)>> \o Below(i) \o From(i + 1)
    IN From(1)

RECURSIVE NodeAt(_, _)
NodeAt(threads, path) ==
    IF Len(path) = 1 THEN threads[path[1]]
    ELSE NodeAt(threads[path[1]].replies, Tail(path))

\* The tree with reply appended to the replies of the node at path.
RECURSIVE AppendAt(_, _, _)
AppendAt(threads, path, reply) ==
    [i \in 1..Len(threads) |->
        IF i # path[1] THEN threads[i]
        ELSE IF Len(path) = 1
        THEN [k \in DOMAIN threads[i] \cup {"replies"} |->
                 IF k # "replies" THEN threads[i][k]
                 ELSE IF HasReplies(threads[i])
                      THEN threads[i].replies \o <<reply>> ELSE <<reply>>]
        ELSE [threads[i] EXCEPT !.replies = AppendAt(@, Tail(path), reply)]]

FirstPreorderPath(threads, id) ==
    LET paths == PreorderPaths(threads)
        k == CHOOSE k \in 1..Len(paths) :
                /\ NodeAt(threads, paths[k]).id = id
                /\ \A j \in 1..(k - 1) : NodeAt(threads, paths[j]).id # id
    IN paths[k]

\* The reply request just answered addressed forum number LastForumIndex of the
\* file it loaded (0: no such forum).
LastForumIndex == IndexById(last.loaded.forums, last.request.id)
LastReplyReachedAForum ==
    /\ last.route = "reply" /\ last.request.route = "reply"
    /\ LastForumIndex # 0
    /\ HasThreads(last.loaded.forums[LastForumIndex])
LastThreads == last.loaded.forums[LastForumIndex].forumData.threads

\* C1: a reply whose threadId matches no thread of an existing forum gets 404 and
\* the stored forum record is left as it was (nothing added, updatedAt kept, no
\* write of the file).
C1_MissingThreadIs404 ==
    (LastReplyReachedAForum /\ last.threw = ""
        /\ last.request.threadId \notin AllThreadIds(LastThreads))
        => /\ last.status = 404
           /\ ~last.wrote
           /\ last.after = last.before

\* The forum just fetched was saved in this run and not written since.
SubmittedFor(id) == CHOOSE x \in submitted : x.id = id
LastFetchOfUntouched ==
    /\ last.route = "get" /\ last.status = 200
    /\ last.request.id \notin touched
    /\ \E x \in submitted : x.id = last.request.id

\* C2 (as stated): fetching a saved forum by its id, with no other write to that
\* forum in between, returns the forumData that was submitted.
C2_FetchReturnsSubmitted ==
    LastFetchOfUntouched
        => last.forum.forumData = SubmittedFor(last.request.id).forumData

\* JSON text reproduces every value of forumData: its numbers are finite and
\* none is negative zero.
JSONPreserves(forumData) ==
    "total" \in DOMAIN forumData => forumData.total.kind = "number"

\* C2 (amended): the same, for forumData whose numbers JSON text reproduces.
C2_FetchReturnsSubmittedFinite ==
    (LastFetchOfUntouched /\ JSONPreserves(SubmittedFor(last.request.id).forumData))
        => last.forum.forumData = SubmittedFor(last.request.id).forumData

C2_Witness ==
    /\ LastFetchOfUntouched
    /\ JSONPreserves(SubmittedFor(last.request.id).forumData)
    /\ HasThreads(last.forum) /\ last.forum.forumData.threads # <<>>
    /\ Len(load(dbFile).forums) = 2

\* The share responses for forum id, oldest first.
TokensOf(id) == SelectSeq(issued, LAMBDA x : x.id = id)

\* C3: however often a share token was generated for a forum, the record holds
\* the token returned last, no earlier token of that forum finds it any more,
\* and generating a token adds no forum record.
C3_LastShareTokenOnly ==
    /\ \A id \in {issued[k].id : k \in 1..Len(issued)} :
          LET toks == TokensOf(id)
              data == load(dbFile)
              forum == findById(data, id)
          IN /\ forum # Undefined
             /\ forum.shareToken = toks[Len(toks)].token
             /\ \A k \in 1..(Len(toks) - 1) :
                   LET found == findByShareToken(data, toks[k].token)
                   IN found = Undefined \/ found.id # id
             /\ Cardinality({i \in 1..Len(data.forums) : data.forums[i].id = id}) = 1
    /\ (last.route = "share" /\ last.wrote)
          => Len(load(last.after).forums) = Len(load(last.before).forums)

C3_Witness ==
    /\ last.route = "share" /\ last.wrote
    /\ Len(TokensOf(last.request.id)) >= 2

\* The reply just stored addressed a thread id that occurs in the forum's tree.
LastReplyFound ==
    /\ LastReplyReachedAForum
    /\ last.wrote
    /\ last.request.threadId \in AllThreadIds(LastThreads)

\* C6: when the threadId exists somewhere in the tree, the reply becomes the last
\* reply of the first thread with that id in depth-first pre-order, and nothing
\* else in the file's forums changes.
C6_ReplyAtFirstPreorder ==
    LastReplyFound =>
        LET i == LastForumIndex
            old == last.loaded.forums
            new == load(last.after).forums
        IN /\ Len(new) = Len(old)
           /\ new[i].forumData.threads =
                 AppendAt(LastThreads,
                          FirstPreorderPath(LastThreads, last.request.threadId),
                          last.request.reply)
           /\ \A j \in 1..Len(old) : j # i => new[j] = old[j]
           /\ \A k \in DOMAIN old[i].forumData :
                 k # "threads" => new[i].forumData[k] = old[i].forumData[k]

\* The reply went to a nested thread whose id also occurs later at the top level.
C6_Witness ==
    /\ LastReplyFound
    /\ Len(FirstPreorderPath(LastThreads, last.request.threadId)) = 2
    /\ \E i \in 1..Len(LastThreads) : LastThreads[i].id = last.request.threadId

\* C7: the save response carries the new forum's id and a share token with which
\* GET /api/forum/share/:token returns the forum just saved.
C7_SaveReturnsUsableToken ==
    (last.route = "save" /\ last.status = 200)
        => /\ isValidToken(last.shareToken)
           /\ findByShareToken(load(last.after), last.shareToken) # Undefined
           /\ findByShareToken(load(last.after), last.shareToken).id = last.id

IdsOf(forums) == [i \in 1..Len(forums) |-> forums[i].id]

\* C8: a write is the writer's own snapshot plus its own change (last write
\* wins): the forums of the file after a save or a reply are those the request
\* loaded (and the new one), whatever was written between its load and its save.
C8_LastWriteWins ==
    last.wrote =>
        IdsOf(load(last.after).forums) =
            IdsOf(last.loaded.forums) \o
                (IF last.route = "save" THEN <<last.id>> ELSE <<>>)

\* Two saves were both answered with success and the file holds one forum.
C8_Witness ==
    /\ Cardinality(submitted) = 2
    /\ Len(load(dbFile).forums) = 1
    /\ \A q \in Procs : pc[q] = "idle"

ThrownMessages == ServiceErrors \cup {WriteError, NotIterable, NoSlice}

RecentPosts(userId, now) ==
    LET RECURSIVE Sum(_)
        Sum(S) == IF S = {} THEN 0
                  ELSE LET t == CHOOSE t \in S : TRUE
                       IN recorded[<<userId, t>>] + Sum(S \ {t})
    IN Sum({t \in RecordTimes : now - t < 30000})

\* C4 (as stated): detectBot(user, now) says isBot exactly when at least 10 posts
\* recorded for that user lie less than 30 seconds before now.
C4_BotIffTenInWindow ==
    botCheck.userId # "" =>
        (botCheck.isBot <=> RecentPosts(botCheck.userId, botCheck.currentTime) >= 10)

\* C4 (amended): the same, when no call was passed an earlier time than the call
\* before it.
C4_BotIffTenInWindowInOrder ==
    (botCheck.userId # "" /\ inOrder) =>
        (botCheck.isBot <=> RecentPosts(botCheck.userId, botCheck.currentTime) >= 10)

\* A user is flagged with ten recent posts while another post does not count.
C4_Witness ==
    /\ botCheck.userId # "" /\ inOrder
    /\ botCheck.isBot
    /\ RecentPosts(botCheck.userId, botCheck.currentTime) = 10
    /\ TotalRecorded = 11


\* The category the documented rules give a text.
DocumentedCategory(text) ==
    LET low == toLowerCase(text)
        Has(words) == \E w \in words : Contains(low, w)
        spam == Has({<<"h", "t", "t", "p">>, <<"w", "w", "w">>, <<".", "c", "o", "m">>, <<"s", "u", "b", "s", "c", "r", "i", "b", "e">>})
        bot == Has({<<"b", "o", "t">>, <<"a", "u", "t", "o", "m", "a", "t", "e", "d">>, <<"r", "o", "b", "o", "t">>})
        toxic == Has({<<"h", "a", "t", "e">>, <<"k", "i", "l", "l">>, <<"s", "t", "u", "p", "i", "d">>, <<"i", "d", "i", "o", "t">>, <<"r", "a", "c", "i", "s", "t">>, <<"e", "x", "p", "l", "e", "t", "i", "v", "e">>})
        question == Has({<<"?">>})
    IN CASE spam -> "spam"
         [] ~spam /\ bot -> "bot"
         [] ~spam /\ ~bot /\ toxic -> "toxic"
         [] ~spam /\ ~bot /\ ~toxic /\ question -> "question"
         [] OTHER -> "genuine"

\* C5: every comment gets the category of the first matching rule on its
\* lower-cased text (spam, bot, toxic, question, else genuine); its other fields
\* and the order of the list are unchanged.
C5_KeywordCategories ==
    classifyDone =>
        /\ Len(classified) = Len(comments)
        /\ \A i \in 1..Len(comments) :
              /\ classified[i].category = DocumentedCategory(comments[i].text)
              /\ DOMAIN classified[i] = DOMAIN comments[i] \cup {"category"}
              /\ \A k \in DOMAIN comments[i] :
                    k # "category" => classified[i][k] = comments[i][k]

\* An upper-case link is spam and a text that names bots and hate is bot.
C5_Witness ==
    /\ classifyDone
    /\ Len(comments) = 2
    /\ comments[1].text = <<"V", "i", "s", "i", "t", " ", "H", "T", "T", "P", ":", "/", "/", "x">> /\ classified[1].category = "spam"
    /\ comments[2].text = <<"I", " ", "h", "a", "t", "e", " ", "b", "o", "t", "s">> /\ classified[2].category = "bot"

\* The answer has the structure the prompt asks for: the JSON text (inside the
\* first pair of fences, if any) is one object whose topics is a list of objects
\* with a list of commentIds, and whose spam, bots and toxic are lists.
ExpectedStructure(response) ==
    LET fenceAt == {i \in 1..Len(response) : response[i].piece = "fence"}
        inner == IF Cardinality(fenceAt) < 2 THEN response
                 ELSE LET a == CHOOSE i \in fenceAt : \A j \in fenceAt : i <= j
                          b == CHOOSE i \in fenceAt \ {a} : \A j \in fenceAt \ {a} : i <= j
                      IN [k \in 1..(b - a - 1) |-> response[a + k]]
    IN /\ Len(inner) = 1
       /\ inner[1].piece = "json"
       /\ LET v == inner[1].value
          IN /\ v.type = "object"
             /\ v.topics.type = "array"
             /\ \A t \in 1..Len(v.topics.items) : v.topics.items[t].commentIds.type = "array"
             /\ v.spam.type = "array" /\ v.bots.type = "array" /\ v.toxic.type = "array"

StaticFallback(list) ==
    [topics |-> <<[title |-> "All Comments",
                   description |-> "Unable to categorize - showing all comments",
                   comments |-> list,
                   sentiment |-> "neutral"]>>,
     spam |-> <<>>, bots |-> <<>>, toxic |-> <<>>, genuine |-> list]

\* C10: when the Gemini call fails, or its answer does not parse into the
\* expected structure, the result is the static fallback: one topic 'All
\* Comments' with every input comment, no spam, bots or toxic, genuine the input.
C10_FallbackOnFailure ==
    (aiDone /\ aiComments # <<>>
        /\ (aiOutcome.threw \/ ~ExpectedStructure(aiOutcome.response)))
        => aiResult = StaticFallback(aiComments)

\* The answer parsed, but has no toxic list.
C10_Witness ==
    /\ aiDone /\ Len(aiComments) = 2
    /\ ~aiOutcome.threw
    /\ Len(aiOutcome.response) = 1 /\ aiOutcome.response[1].piece = "json"
    /\ aiOutcome.response[1].value.type = "object"
    /\ aiOutcome.response[1].value.toxic.type = "undefined"
    /\ aiResult = StaticFallback(aiComments)

\* C11: load never raises; with the file missing or not valid JSON it returns
\* {forums: [], users: [], subscriptions: []}, and otherwise the parse of the
\* text the last completed save wrote.
C11_LoadFallsBackOrReturnsSaved ==
    dbLoad.called =>
        /\ ~dbLoad.raised
        /\ dbLoad.value =
              IF ~dbFile.exists \/ ~IsJson(dbFile.raw)
              THEN [forums |-> <<>>, users |-> <<>>, subscriptions |-> <<>>]
              ELSE JSONParse(dbLastSaved)

\* A save completed with a forum, a later one was cut short, and load
\* answered with the empty structure.
C11_Witness ==
    /\ dbLoad.called
    /\ dbLastSaved # NoText /\ Len(dbLastSaved.forums) = 1
    /\ dbFile.exists /\ ~IsJson(dbFile.raw)
    /\ dbLoad.value.forums = <<>>

\* Members whose latest vote on the flagged user is of the given type.
CurrentVoters(voteType) == {v \in Voters : ballots[v] = voteType}

\* C12: after a vote on a flagged user, the entry counts the distinct members
\* currently voting each way; with 5 or more for restore the user is restored
\* and on probation, otherwise with 10 or more for keep the user is suspended
\* for 2 hours from now, otherwise the status is what it was; and until a
\* threshold has been reached the status is 'pending'.
C12_VoteThresholds ==
    \A u \in TimeoutUserIds :
        (tLast.op = "vote" /\ tLast.status = 200 /\ tLast.userId = u
            /\ timeoutUsers[u].reason # "voluntary")
        => LET entry == timeoutUsers[u]
               restore == Cardinality(CurrentVoters("restore"))
               keep == Cardinality(CurrentVoters("keep"))
           IN /\ entry.votes.restore = restore
              /\ entry.votes.keep = keep
              /\ restore >= 5 => (entry.status = "restored" /\ entry.onProbation)
              /\ (restore < 5 /\ keep >= 10)
                    => /\ entry.status = "suspended"
                       /\ suspensions[u] = Now + 2 * 60 * 60 * 1000
                       /\ isSuspended(u)
              /\ (restore < 5 /\ keep < 10) => entry.status = tLast.before
              /\ ~reached => entry.status = "pending"

\* Ten members vote keep and five vote restore: the user is restored.
C12_Witness ==
    /\ tLast.op = "vote" /\ tLast.status = 200
    /\ timeoutUsers["mallory"].reason = "Spam"
    /\ Cardinality(CurrentVoters("restore")) = 5
    /\ Cardinality(CurrentVoters("keep")) = 10
    /\ timeoutUsers["mallory"].status = "restored"

\* processTimeoutFlags has just handled a spam comment of user u.
SpamJustProcessed(u) == tLast.op \in {"repeat", "flag"} /\ tLast.userId = u

GrantedWithin(times, from, span) ==
    Cardinality({j \in 1..Len(times) : times[j] >= from /\ times[j] - from < span})

\* C14: for each key, isAllowed returns true at most maxAttempts times within
\* any span shorter than the window (5 per minute for forumyze, 3 for podcast);
\* a denied call leaves the Map as it was, and a call never changes what is
\* recorded for another key.
C14_AtMostMaxPerWindow ==
    /\ \A i \in 1..Len(granted["forumyze"]) :
          GrantedWithin(granted["forumyze"], granted["forumyze"][i], 60000) <= 5
    /\ \A i \in 1..Len(granted["podcast"]) :
          GrantedWithin(granted["podcast"], granted["podcast"][i], 60000) <= 3
    /\ (rlLast.key # "" /\ ~rlLast.allowed) => timestamps = rlLast.before
    /\ \A k \in RateKeys :
          (rlLast.key # "" /\ k # rlLast.key) => timestamps[k] = rlLast.before[k]

\* The sixth forumyze click within a minute was denied after podcast clicks
\* were let through.
C14_Witness ==
    /\ rlLast.key = "forumyze" /\ ~rlLast.allowed
    /\ Len(granted["forumyze"]) = 5
    /\ Len(granted["podcast"]) >= 1
    /\ rlNow = granted["forumyze"][1] + 59999

\* The replies of thread t1 of the first stored forum.
StoredReplies ==
    IF load(dbFile).forums = <<>> THEN <<>>
    ELSE load(dbFile).forums[1].forumData.threads[1].replies

\* C15: a reply posted by a user who was found posting too fast and has not
\* been unblocked since is stored with category 'hell' and inHell true,
\* whatever category the request asked for.
C15_FlaggedRepliesGoToHell ==
    (hellLast.arrived /\ hellLast.status = 200 /\ hellLast.wasFlagged)
    => LET stored == StoredReplies[Len(StoredReplies)]
       IN /\ stored.id = hellLast.replyId
          /\ stored.category = "hell"
          /\ "inHell" \in DOMAIN stored
          /\ stored.inHell = TRUE

\* A flagged user asks for category spam half a minute after the flag.
C15_Witness ==
    /\ hellLast.arrived /\ hellLast.status = 200 /\ hellLast.wasFlagged
    /\ hellLast.category = "spam"
    /\ hellNow = 30000
    /\ Len(StoredReplies) = 11
    /\ StoredReplies[11].category = "hell"

\* The forum POST /api/forumyze finds for the video, if one is stored.
CachedForums ==
    LET forums == load(dbFile).forums
    IN {forums[i] : i \in {j \in 1..Len(forums) :
                              j = IndexByVideoId(forums, forums[j].videoId)}}

\* C16: POST /api/forumyze answers a video that has a saved forum with that
\* forum's forumData and cached: true without invoking forumyzeService, and
\* the forum's timesAccessed grows by exactly one per such request: once no
\* request is in flight it is the number of cached answers given.
C16_CachedAnswerCountsOnce ==
    /\ (cacheLast.status = 200 /\ cacheLast.existed)
       => /\ cacheLast.cached /\ ~cacheLast.service
          /\ cacheLast.forumData = CacheForumData
    /\ (\A p \in Procs : pc[p] = "idle")
       => \A f \in CachedForums : f.timesAccessed = cachedAnswers

\* The comments of the first n pages, in order.
RECURSIVE CommentsOfPages(_)
CommentsOfPages(n) ==
    IF n = 0 THEN <<>> ELSE CommentsOfPages(n - 1) \o CommentsOfItems(PageItems(n))

\* C17: fetchAllComments makes at most 50 page requests and returns: it stops
\* when a page carries no nextPageToken, when 50 pages were fetched or when a
\* page request fails, and it then returns the comments of the pages fetched
\* so far.
C17_FetchStopsWithin50Pages ==
    /\ [](fetchRequests <= maxPages)
    /\ [](fetchPc = "done"
          => /\ fetchFailed \/ nextPageToken = NoToken \/ pageCount = maxPages
             /\ fetchResult = [returned |-> TRUE, comments |-> CommentsOfPages(pageCount)]
             /\ fetchRequests = pageCount + (IF fetchFailed THEN 1 ELSE 0))
    /\ <>(fetchPc = "done")

\* The 50th request fails after 49 pages, and their comments are returned.
C17_Witness ==
    /\ fetchPc = "done" /\ fetchFailed
    /\ fetchRequests = 50 /\ pageCount = 49
    /\ fetchResult.returned /\ Len(fetchResult.comments) = 33

\* The steps of a handler whose calls all succeeded, and what came of message m.
ExtOrder == <<"forumize", "save", "storage", "response">>
ExtFailed(m) ==
    /\ extPc[m] = "done"
    /\ "storage" \notin {extSteps[m][i] : i \in 1..Len(extSteps[m])}

\* C18: the forumizeVideo handler calls forumize, then save, then writes
\* chrome.storage.local, then responds; it writes storage only after both
\* calls succeeded, and when a call fails the sender gets exactly one
\* response, which carries an error, and the handler writes nothing.
C18_StepsInOrderOneResponse ==
    \A m \in ExtMessages :
        /\ Len(extResponses[m]) <= 1
        /\ \/ extSteps[m] = SubSeq(ExtOrder, 1, Len(extSteps[m]))
           \/ /\ ExtFailed(m)
              /\ \E n \in 0..2 : extSteps[m] = SubSeq(ExtOrder, 1, n) \o <<"response">>
        /\ extStorage.id = SavedId(m) => extSteps[m] = ExtOrder
        /\ ExtFailed(m)
           => /\ Len(extResponses[m]) = 1
              /\ DOMAIN extResponses[m][1] = {"error"}
              /\ extStorage.id # SavedId(m)
        /\ (extPc[m] = "done" /\ ~ExtFailed(m))
           => /\ extResponses[m] = <<[data |-> extForumData[m], forumId |-> SavedId(m)]>>
              /\ extSteps[m] = ExtOrder

\* Message 1 was stored; message 2 failed at the save call and left it stored.
C18_Witness ==
    /\ extPc[1] = "done" /\ extSteps[1] = ExtOrder
    /\ extPc[2] = "done" /\ extSteps[2] = <<"forumize", "save", "response">>
    /\ extResponses[2] = <<[error |-> "HTTP 500"]>>
    /\ extStorage.id = SavedId(1)

\* C19: once a poll of /api/forumize/live was answered with isLive false, the
\* polling timer is cleared and no poll request is sent until
\* startLivePolling is called again; right after the answer isLive is false.
C19_PollingStopsWhenStreamEnds ==
    /\ endedSince => /\ activeTimers = {}
                     /\ livePollingInterval = NoTimer
                     /\ sentSinceEnded = 0
    /\ liveLast.op = "ended" => ~isLive /\ endedSince

\* The stream ended while a timer was running and another poll was in flight.
C19_Witness ==
    /\ liveLast.op = "ended"
    /\ timerCount = 1 /\ pollsSent >= 2 /\ pollsInFlight >= 1
    /\ activeTimers = {}

\* C20: a handleForumyzeVideo call that finds the video live and loads an
\* existing board with threads starts live polling in that call, also when
\* no board id was known before it.
C20_LiveBoardStartsPolling ==
    (liveLast.op = "loaded" /\ liveLast.live /\ liveLast.boardLoaded)
    => (liveLast.polling /\ activeTimers # {} /\ ~endedSince)

\* C21: a flagUserForTimeout call for a user who is suspended returns null
\* and changes nothing: no entry is created or replaced, no vote sets are
\* reset, the suspension stays. A call after the end time finds the user not
\* suspended, removes the suspension record and goes on to flag the user.
C21_SuspendedUserIsNotFlagged ==
    [][\A u \in TimeoutUserIds :
          (tLast'.op = "flag" /\ tLast'.userId = u /\ suspensions[u] # 0)
          => IF Now < suspensions[u]
             THEN /\ tLast'.action = "null"
                  /\ UNCHANGED <<timeoutUsers, userVotes, suspensions, flagging>>
             ELSE /\ tLast'.action = "awaiting"
                  /\ suspensions'[u] = 0
                  /\ flagging' = u]_vars

\* A suspended user was flagged an hour into the suspension.
C21_Witness ==
    /\ tLast.op = "flag" /\ tLast.userId = "mallory" /\ tLast.action = "null"
    /\ tHours = 1
    /\ suspensions["mallory"] = TwoHours
    /\ flagging = ""

\* C22: for a flagged user each voter counts at most once: the restore and
\* keep voter sets are disjoint, they hold exactly the voters whose latest
\* vote was restore or keep, and the entry's two vote counts are the sizes of
\* the two sets.
C22_EachVoterCountsOnce ==
    \A u \in TimeoutUserIds :
        /\ userVotes[u].present
           => /\ userVotes[u].restore \cap userVotes[u].keep = {}
              /\ userVotes[u].restore = {v \in Voters : ballots[v] = "restore"}
              /\ userVotes[u].keep = {v \in Voters : ballots[v] = "keep"}
        /\ (HasEntry(u) /\ timeoutUsers[u].reason # "voluntary")
           => /\ userVotes[u].present
              /\ timeoutUsers[u].votes.restore = Cardinality(userVotes[u].restore)
              /\ timeoutUsers[u].votes.keep = Cardinality(userVotes[u].keep)

\* A member who had voted restore changed the vote to keep.
C22_Witness ==
    /\ tLast.op = "vote" /\ tLast.status = 200
    /\ revotes = 1
    /\ userVotes["mallory"].keep = {1}
    /\ userVotes["mallory"].restore = {2, 3}
    /\ timeoutUsers["mallory"].votes = [restore |-> 2, keep |-> 1]

CountedComments(threads) ==
    {<<i, 0>> : i \in 1..Len(threads)}
    \cup UNION {{<<i, r>> : r \in 1..Len(threads[i].replies)} : i \in 1..Len(threads)}
CategoryAt(threads, at) ==
    IF at[2] = 0 THEN threads[at[1]].category ELSE threads[at[1]].replies[at[2]].category
RECURSIVE SumOfCounts(_, _)
SumOfCounts(count, n) ==
    IF n = 0 THEN 0 ELSE SumOfCounts(count, n - 1) + count[defaultCategories[n]]

\* C24: in a result of forumize, stats.totalComments is the number of threads
\* plus the number of their replies, each category's count is the number of
\* those comments with that category, the five counts sum to totalComments,
\* and with no comments every percentage is 0.
C24_StatsCountEveryComment ==
    statResult.done
    => LET threads == statResult.threads
           stats == statResult.stats
       IN /\ stats.totalComments = Fetched(statThreads)
          /\ stats.totalComments = Cardinality(CountedComments(threads))
          /\ \A cat \in Categories :
                stats.count[cat] =
                   Cardinality({at \in CountedComments(threads) :
                                   CategoryAt(threads, at) = cat})
          /\ SumOfCounts(stats.count, Len(defaultCategories)) = stats.totalComments
          /\ stats.totalComments = 0 => \A cat \in Categories : stats.percentage[cat] = 0

\* Two threads, one with two replies, of four different categories.
C24_Witness ==
    /\ statResult.done
    /\ Len(statResult.threads) = 2
    /\ Len(statResult.threads[1].replies) = 2
    /\ statResult.stats.totalComments = 4
    /\ statResult.stats.count["spam"] = 1 /\ statResult.stats.count["question"] = 1
    /\ statResult.stats.count["toxic"] = 1 /\ statResult.stats.count["genuine"] = 1
    /\ statResult.stats.percentage["spam"] = 25

====
